---- MODULE Spec2Model ----
(***************************************************************************)
(* The message codec of the ESP32 Bus Pirate wire protocol                 *)
(* (rust/protocol): Message values, their postcard payload encoding, the   *)
(* frame START | VERSION | LENGTH | PAYLOAD | CRC16 | END built by         *)
(* MessageCodec::encode and validated by MessageCodec::decode.             *)
(*                                                                         *)
(* Bytes are the integers 0..255 and byte strings are sequences of them.   *)
(* A Rust Result is a record: [ok |-> TRUE, val |-> v] for Ok(v) and       *)
(* [ok |-> FALSE, err |-> e] for Err(e).                                   *)
(***************************************************************************)
EXTENDS Integers, Sequences, FiniteSets

\* ------------------------------------------------------------------------
\* Protocol constants (lib.rs, version.rs)
\* ------------------------------------------------------------------------

START_BYTE == 170

END_BYTE == 85

MAX_MESSAGE_SIZE == 1024

PROTOCOL_VERSION == 1

\* A version check that also takes the versions before the current one.
is_compatible_or_older(version) == version <= PROTOCOL_VERSION

\* version::is_compatible
is_compatible(version) == version = PROTOCOL_VERSION

Byte == 0 .. 255

Ok(v) == [ok |-> TRUE, val |-> v]

Err(e) == [ok |-> FALSE, err |-> e]

\* ------------------------------------------------------------------------
\* State.  MessageCodec is a unit struct: the codec keeps nothing between
\* calls.  The variables hold the calls made on it and what they returned.
\* ------------------------------------------------------------------------

VARIABLES
    msg,        \* the Message of the latest encode call, or NoMsg
    encoded,    \* what that call returned, or NotCalled
    input,      \* the bytes of the latest decode call
    decoded,    \* what that call returned, or NotCalled
    calls,      \* the calls made so far, oldest first (kept by SpecSeq)
    threads,    \* per execution context: the codec call it is running
    bufs,       \* per execution context: the payload_buf of its encode call
    spi,        \* the SpiDeviceWithCs and the transaction it is running
    pwm,        \* the PwmConfig being built and the PwmChannel made of it
    i2c         \* the bus devices and the scan that is running

\* The state of the codec calls made one at a time.
codecVars == << msg, encoded, input, decoded, calls >>

\* The state of the codec calls that run concurrently.
concVars == << threads, bufs >>

\* The state of the peripherals.
halVars == << spi, pwm, i2c >>

vars == << msg, encoded, input, decoded, calls, threads, bufs, spi, pwm, i2c >>

NoMsg == [t |-> "None"]

NotCalled == [ok |-> FALSE, err |-> "NotCalled"]

\* The execution contexts that call the codec at the same time.
Contexts == {1, 2}

\* A context that runs no call.
NoCall ==
    [pc |-> "idle", op |-> "none", arg |-> << >>, slice |-> 0,
     frame |-> NotCalled, ret |-> NotCalled]

\* A peripheral wrapper that has not been constructed yet.
NoDevice == [pc |-> "none"]

\* ------------------------------------------------------------------------
\* Bit operations on bytes and 16-bit words
\* ------------------------------------------------------------------------

\* Exclusive or of two 4-bit values, bit by bit.
XorNibble(a, b) ==
    ((a + b) % 2)
    + 2 * (((a \div 2) + (b \div 2)) % 2)
    + 4 * (((a \div 4) + (b \div 4)) % 2)
    + 8 * (((a \div 8) + (b \div 8)) % 2)

XorTable == [a \in 0 .. 15 |-> [b \in 0 .. 15 |-> XorNibble(a, b)]]

\* a ^ b on u8.
Xor8(a, b) == 16 * XorTable[a \div 16][b \div 16] + XorTable[a % 16][b % 16]

\* a ^ b on u16.
Xor16(a, b) == 256 * Xor8(a \div 256, b \div 256) + Xor8(a % 256, b % 256)

\* u16::to_be_bytes: the high byte first.
to_be_bytes(x) == << x \div 256, x % 256 >>

\* u16::to_le_bytes
to_le_bytes(x) == << x % 256, x \div 256 >>

\* u16::from_le_bytes
from_le_bytes(lo, hi) == lo + 256 * hi

\* ------------------------------------------------------------------------
\* CRC-16/IBM-SDLC (= ISO-HDLC, X-25): width 16, poly 0x1021, init 0xFFFF,
\* refin and refout true, xorout 0xFFFF.  With reflected input and output
\* the register is shifted right and the polynomial is used bit-reversed.
\* ------------------------------------------------------------------------

CRC_POLY == 4129

CRC_INIT == 65535

CRC_XOROUT == 65535

RECURSIVE Reflect16(_, _)
\* The 16-bit value x with its bits in reverse order (n = bits still to move).
Reflect16(x, n) ==
    IF n = 0 THEN 0
    ELSE (x % 2) * (2 ^ (n - 1)) + Reflect16(x \div 2, n - 1)

CRC_POLY_REFLECTED == Reflect16(CRC_POLY, 16)

RECURSIVE CrcShift(_, _)
\* n steps of the reflected shift register.
CrcShift(crc, n) ==
    IF n = 0 THEN crc
    ELSE CrcShift(IF crc % 2 = 1
                  THEN Xor16(crc \div 2, CRC_POLY_REFLECTED)
                  ELSE crc \div 2, n - 1)

\* The byte-wise lookup table of the algorithm.
CrcTable == [i \in 0 .. 255 |-> CrcShift(i, 8)]

\* One input byte.
CrcUpdate(crc, byte) ==
    Xor16(CrcTable[Xor8(crc % 256, byte)], crc \div 256)

RECURSIVE CrcFold(_, _, _, _)
\* The register after the bytes data[lo..hi], taken in order.  The range is
\* halved so that the evaluation depth stays logarithmic in its length.
CrcFold(crc, data, lo, hi) ==
    IF lo > hi THEN crc
    ELSE IF lo = hi THEN CrcUpdate(crc, data[lo])
    ELSE LET mid == (lo + hi) \div 2
             left == CrcFold(crc, data, lo, mid)
         IN  IF left >= 0 THEN CrcFold(left, data, mid + 1, hi) ELSE left

\* A checksum that leaves the top bit of every byte out.
checksum_of_low_bits(data) ==
    Xor16(CrcFold(CRC_INIT, [k \in 1 .. Len(data) |-> data[k] % 128], 1,
                  Len(data)),
          CRC_XOROUT)

\* CRC.checksum(data)
Checksum(data) == Xor16(CrcFold(CRC_INIT, data, 1, Len(data)), CRC_XOROUT)

\* ------------------------------------------------------------------------
\* The Value Model (message.rs).  A value of an enum is a record whose field
\* t names the variant; the tuples below list the variants in declaration
\* order, which is the order the derived Serialize/Deserialize number them.
\* A u32 is the record [hi, lo] of its 16-bit halves.
\* ------------------------------------------------------------------------

MessageVariants ==
    << "SetMode", "GetMode", "I2cScan", "I2cWrite", "I2cRead",
       "I2cReadRegister", "I2cWriteRegister", "SpiTransfer", "UartWrite",
       "UartRead", "UartConfig", "SetConfig", "GetConfig", "FileList",
       "FileRead", "FileWrite", "Response", "Error" >>

ModeVariants ==
    << "HiZ", "I2c", "Spi", "Uart", "OneWire", "TwoWire", "ThreeWire", "Dio",
       "Infrared", "Usb", "Bluetooth", "Wifi", "Ethernet", "Jtag", "Led",
       "I2s", "Can", "SubGhz", "Rfid", "Rf24" >>

ResponseVariants ==
    << "Success", "Data", "I2cDevices", "CurrentMode", "ConfigValue",
       "FileList" >>

ErrorCodeVariants ==
    << "InvalidCommand", "ProtocolError", "BusError", "FileNotFound",
       "PermissionDenied", "Timeout", "NotConfigured", "InvalidParameter" >>

\* The position of a variant in its declaration, counted from 0.
Ordinal(variants, name) ==
    CHOOSE k \in 0 .. Len(variants) - 1 : variants[k + 1] = name

\* Capacities of the heapless containers.
CAP_DATA == 256

CAP_KEY == 32

CAP_VALUE == 64

CAP_PATH == 128

CAP_FILE_DATA == 512

CAP_RESPONSE_DATA == 512

CAP_I2C_DEVICES == 128

CAP_FILE_NAME == 64

CAP_FILE_LIST == 32

\* ------------------------------------------------------------------------
\* postcard's wire format, as to_slice writes it for the derived Serialize
\* of Message: a varint is little-endian base 128 with the continuation bit
\* (0x80) on all bytes but the last; a u8 is one raw byte.
\* ------------------------------------------------------------------------

RECURSIVE Varint(_)
\* The varint of a number below 2^31.
Varint(n) ==
    IF n < 128 THEN << n >>
    ELSE << 128 + (n % 128) >> \o Varint(n \div 128)

\* The five 7-bit groups of a u32, least significant first.
GroupsU32(w) ==
    << w.lo % 128,
       (w.lo \div 128) % 128,
       (w.lo \div 16384) + 4 * (w.hi % 32),
       (w.hi \div 32) % 128,
       w.hi \div 4096 >>

RECURSIVE VarintOfGroups(_, _)
\* The varint of the number with 7-bit groups g[1..n], least significant
\* first: the groups above the highest non-zero one are not written.
VarintOfGroups(g, n) ==
    IF n > 1 /\ g[n] = 0 THEN VarintOfGroups(g, n - 1)
    ELSE [k \in 1 .. n |-> IF k < n THEN 128 + g[k] ELSE g[k]]

ser_u8(x) == << x >>

\* A u16 written as its two bytes, not as a varint.
ser_u16_fixed(x) == to_le_bytes(x)

ser_u16(x) == Varint(x)

ser_u32(w) == VarintOfGroups(GroupsU32(w), 5)

\* A tag that counts the variants from 1.
ser_variant_from_one(variants, name) == Varint(Ordinal(variants, name) + 1)

\* A unit variant, or the tag of any variant: the ordinal as a varint (u32).
ser_variant(variants, name) == Varint(Ordinal(variants, name))

\* heapless::Vec<u8, N> and heapless::String<N>: the count, then the bytes.
ser_bytes(data) == Varint(Len(data)) \o data

RECURSIVE ser_strings_from(_, _)
ser_strings_from(list, k) ==
    IF k > Len(list) THEN << >>
    ELSE ser_bytes(list[k]) \o ser_strings_from(list, k + 1)

\* heapless::Vec<String<64>, 32>: the count, then each string.
ser_strings(list) == Varint(Len(list)) \o ser_strings_from(list, 1)

ser_Mode(mode) == ser_variant(ModeVariants, mode)

ser_ErrorCode(code) == ser_variant(ErrorCodeVariants, code)

ser_Response(r) ==
    ser_variant(ResponseVariants, r.t) \o
    CASE r.t = "Success" -> << >>
      [] r.t = "Data" -> ser_bytes(r.data)
      [] r.t = "I2cDevices" -> ser_bytes(r.addrs)
      [] r.t = "CurrentMode" -> ser_Mode(r.mode)
      [] r.t = "ConfigValue" -> ser_bytes(r.value)
      [] r.t = "FileList" -> ser_strings(r.files)

ser_Message(m) ==
    ser_variant(MessageVariants, m.t) \o
    CASE m.t = "SetMode" -> ser_Mode(m.mode)
      [] m.t = "GetMode" -> << >>
      [] m.t = "I2cScan" -> << >>
      [] m.t = "I2cWrite" -> ser_u8(m.addr) \o ser_bytes(m.data)
      [] m.t = "I2cRead" -> ser_u8(m.addr) \o ser_u8(m.len)
      [] m.t = "I2cReadRegister" -> ser_u8(m.addr) \o ser_u8(m.reg)
      [] m.t = "I2cWriteRegister" ->
            ser_u8(m.addr) \o ser_u8(m.reg) \o ser_u8(m.value)
      [] m.t = "SpiTransfer" -> ser_bytes(m.data)
      [] m.t = "UartWrite" -> ser_bytes(m.data)
      [] m.t = "UartRead" -> ser_u16(m.len)
      [] m.t = "UartConfig" -> ser_u32(m.baudrate)
      [] m.t = "SetConfig" -> ser_bytes(m.key) \o ser_bytes(m.value)
      [] m.t = "GetConfig" -> ser_bytes(m.key)
      [] m.t = "FileList" -> ser_bytes(m.path)
      [] m.t = "FileRead" -> ser_bytes(m.path)
      [] m.t = "FileWrite" -> ser_bytes(m.path) \o ser_bytes(m.data)
      [] m.t = "Response" -> ser_Response(m.resp)
      [] m.t = "Error" -> ser_ErrorCode(m.code)

\* postcard::to_slice(msg, &mut payload_buf): the used part of the buffer,
\* or an error when the encoding does not fit the buffer.
to_slice(m, size) ==
    LET bytes == ser_Message(m)
    IN  IF Len(bytes) > size THEN Err("SerializeBufferFull") ELSE Ok(bytes)

\* ------------------------------------------------------------------------
\* postcard's deserializer, as from_bytes runs it for the derived
\* Deserialize of Message.  A reader works on the payload b from index i
\* (1-based) and returns [ok |-> TRUE, val, next] with the index after what
\* it consumed, or Fail.
\* ------------------------------------------------------------------------

Fail == [ok |-> FALSE]

Got(v, n) == [ok |-> TRUE, val |-> v, next |-> n]

\* Any count of 2^21 or more stands for "more than a payload can hold": the
\* LENGTH field is a u16, so no container of that many elements is present.
HUGE == 2 ^ 21

\* The groups read by r, after the group g.
Cons(g, r) == IF r.ok THEN Got(<< g >> \o r.val, r.next) ELSE Fail

RECURSIVE take_groups(_, _, _, _, _)
\* try_take_varint_*: up to maxBytes bytes, 7 bits each, least significant
\* first; the number ends at the first byte without the continuation bit.
\* A last possible byte above maxLast, or a continuation bit on it, is a bad
\* varint.  A non-minimal form (trailing zero groups) is accepted.
take_groups(b, i, k, maxBytes, maxLast) ==
    IF k >= maxBytes \/ i > Len(b) THEN Fail
    ELSE IF b[i] < 128
         THEN IF k = maxBytes - 1 /\ b[i] > maxLast THEN Fail
              ELSE Got(<< b[i] >>, i + 1)
         ELSE Cons(b[i] - 128,
                   take_groups(b, i + 1, k + 1, maxBytes, maxLast))

\* g[k], or 0 beyond the groups read.
Group(g, k) == IF k <= Len(g) THEN g[k] ELSE 0

\* The number of the groups, saturating at HUGE.
GroupsValue(g) ==
    IF Group(g, 4) # 0 \/ Group(g, 5) # 0 THEN HUGE
    ELSE Group(g, 1) + 128 * Group(g, 2) + 16384 * Group(g, 3)

\* The u32 of the groups, as its 16-bit halves.
GroupsToU32(g) ==
    [ lo |-> Group(g, 1) + 128 * Group(g, 2) + 16384 * (Group(g, 3) % 4),
      hi |-> (Group(g, 3) \div 4) + 32 * Group(g, 4) + 4096 * Group(g, 5) ]

\* The number read, from the groups read.
AsNumber(r) == IF r.ok THEN Got(GroupsValue(r.val), r.next) ELSE Fail

AsU32(r) == IF r.ok THEN Got(GroupsToU32(r.val), r.next) ELSE Fail

de_u8(b, i) == IF i > Len(b) THEN Fail ELSE Got(b[i], i + 1)

\* try_take_varint_u16: 3 bytes at most, the third at most 0x03.
de_u16(b, i) == AsNumber(take_groups(b, i, 0, 3, 3))

\* try_take_varint_u32: 5 bytes at most, the fifth at most 0x0F.
de_u32(b, i) == AsU32(take_groups(b, i, 0, 5, 15))

\* try_take_varint_usize on the 32-bit target, saturating: an element count.
de_usize(b, i) == AsNumber(take_groups(b, i, 0, 5, 15))

\* A variant lookup that takes the last variant for an index beyond it.
AsVariantClamped(variants, r) ==
    IF ~r.ok THEN Fail
    ELSE IF r.val < Len(variants) THEN Got(variants[r.val + 1], r.next)
    ELSE Got(variants[Len(variants)], r.next)

\* The variant with index r.val, which the derived visitor rejects when it
\* is beyond the declared variants.
AsVariant(variants, r) ==
    IF r.ok /\ r.val < Len(variants)
    THEN Got(variants[r.val + 1], r.next)
    ELSE Fail

\* The variant index (a u32 varint) of an enum with the given variants.
de_variant(variants, b, i) == AsVariant(variants, de_usize(b, i))

\* A reader of counted bytes that does not look at the capacity.
take_n_uncapped(b, n, cap) ==
    IF ~n.ok THEN Fail
    ELSE IF n.next + n.val - 1 > Len(b) THEN Fail
    ELSE Got(SubSeq(b, n.next, n.next + n.val - 1), n.next + n.val)

\* The n.val bytes after the count n, when they are there and fit cap.
take_n(b, n, cap) ==
    IF ~n.ok THEN Fail
    ELSE IF n.val > cap \/ n.next + n.val - 1 > Len(b) THEN Fail
    ELSE Got(SubSeq(b, n.next, n.next + n.val - 1), n.next + n.val)

\* heapless::Vec<u8, cap>: the count, then that many bytes; an element that
\* does not fit the capacity is an error.
de_bytes(b, i, cap) == take_n(b, de_usize(b, i), cap)

\* The number of bytes of the UTF-8 sequence starting at s[i], or 0 when
\* there is no well-formed one (core::str::from_utf8).
Utf8Width(s, i) ==
    LET c == s[i]
        Cont(k) == i + k <= Len(s) /\ s[i + k] >= 128 /\ s[i + k] <= 191
        In(k, lo, hi) == i + k <= Len(s) /\ s[i + k] >= lo /\ s[i + k] <= hi
    IN  IF c < 128 THEN 1
        ELSE IF c >= 194 /\ c <= 223 THEN IF Cont(1) THEN 2 ELSE 0
        ELSE IF c = 224 THEN IF In(1, 160, 191) /\ Cont(2) THEN 3 ELSE 0
        ELSE IF c = 237 THEN IF In(1, 128, 159) /\ Cont(2) THEN 3 ELSE 0
        ELSE IF c >= 225 /\ c <= 239
             THEN IF Cont(1) /\ Cont(2) THEN 3 ELSE 0
        ELSE IF c = 240
             THEN IF In(1, 144, 191) /\ Cont(2) /\ Cont(3) THEN 4 ELSE 0
        ELSE IF c >= 241 /\ c <= 243
             THEN IF Cont(1) /\ Cont(2) /\ Cont(3) THEN 4 ELSE 0
        ELSE IF c = 244
             THEN IF In(1, 128, 143) /\ Cont(2) /\ Cont(3) THEN 4 ELSE 0
        ELSE 0

\* core::str::from_utf8(s).is_ok(): every byte that is not a continuation
\* byte (0x80..0xBF) starts a well-formed sequence, and every continuation
\* byte lies within the sequence started 1, 2 or 3 bytes before it.
IsUtf8(s) ==
    \A i \in 1 .. Len(s) :
        IF s[i] >= 128 /\ s[i] <= 191
        THEN \E k \in 1 .. 3 : i - k >= 1 /\ Utf8Width(s, i - k) > k
        ELSE Utf8Width(s, i) # 0

\* The bytes r.val as a string: they must be UTF-8.
AsStr(r) == IF r.ok /\ IsUtf8(r.val) THEN r ELSE Fail

\* heapless::String<cap>: the count, that many bytes, which must be UTF-8
\* and fit the capacity.
de_str(b, i, cap) == AsStr(de_bytes(b, i, cap))

RECURSIVE de_strings_from(_, _, _, _)
\* The string s pushed on acc, which holds CAP_FILE_LIST strings at most,
\* and then the strings after it.
push_str(b, s, left, acc) ==
    IF s.ok /\ Len(acc) < CAP_FILE_LIST
    THEN de_strings_from(b, s.next, left - 1, Append(acc, s.val))
    ELSE Fail

\* The remaining `left` strings of a list, appended to acc.
de_strings_from(b, i, left, acc) ==
    IF left = 0 THEN Got(acc, i)
    ELSE push_str(b, de_str(b, i, CAP_FILE_NAME), left, acc)

\* The n.val strings after the count n.
take_strings(b, n) ==
    IF n.ok THEN de_strings_from(b, n.next, n.val, << >>) ELSE Fail

\* heapless::Vec<String<64>, 32>
de_strings(b, i) == take_strings(b, de_usize(b, i))

de_Mode(b, i) == de_variant(ModeVariants, b, i)

de_ErrorCode(b, i) == de_variant(ErrorCodeVariants, b, i)

\* The variant `variant` with its one field, read by r.
Variant1(variant, field, r) ==
    IF ~r.ok THEN Fail
    ELSE Got([k \in {"t", field} |-> IF k = "t" THEN variant ELSE r.val],
             r.next)

\* The variant with two fields, read by q and then r.
Variant2(variant, field1, q, field2, r) ==
    IF ~q.ok \/ ~r.ok THEN Fail
    ELSE Got([k \in {"t", field1, field2} |->
                 IF k = "t" THEN variant
                 ELSE IF k = field1 THEN q.val ELSE r.val],
             r.next)

\* The variant with three fields, read by p, q and then r.
Variant3(variant, field1, p, field2, q, field3, r) ==
    IF ~p.ok \/ ~q.ok \/ ~r.ok THEN Fail
    ELSE Got([k \in {"t", field1, field2, field3} |->
                 IF k = "t" THEN variant
                 ELSE IF k = field1 THEN p.val
                 ELSE IF k = field2 THEN q.val ELSE r.val],
             r.next)

\* The position after what q read, or past the end when q failed (a reader
\* started there fails too).
After(b, q) == IF q.ok THEN q.next ELSE Len(b) + 1

\* The fields of the Response variant tag.val.
ResponseFields(b, tag) ==
    IF ~tag.ok THEN Fail
    ELSE CASE tag.val = "Success" -> Got([t |-> "Success"], tag.next)
           [] tag.val = "Data" ->
                Variant1("Data", "data",
                         de_bytes(b, tag.next, CAP_RESPONSE_DATA))
           [] tag.val = "I2cDevices" ->
                Variant1("I2cDevices", "addrs",
                         de_bytes(b, tag.next, CAP_I2C_DEVICES))
           [] tag.val = "CurrentMode" ->
                Variant1("CurrentMode", "mode", de_Mode(b, tag.next))
           [] tag.val = "ConfigValue" ->
                Variant1("ConfigValue", "value",
                         de_str(b, tag.next, CAP_VALUE))
           [] tag.val = "FileList" ->
                Variant1("FileList", "files", de_strings(b, tag.next))

de_Response(b, i) == ResponseFields(b, de_variant(ResponseVariants, b, i))

\* The fields after the first one of the variants with several fields.
I2cWriteFields(b, a) ==
    Variant2("I2cWrite", "addr", a,
             "data", de_bytes(b, After(b, a), CAP_DATA))

I2cReadFields(b, a) ==
    Variant2("I2cRead", "addr", a, "len", de_u8(b, After(b, a)))

I2cReadRegisterFields(b, a) ==
    Variant2("I2cReadRegister", "addr", a, "reg", de_u8(b, After(b, a)))

I2cWriteRegisterValue(b, a, r) ==
    Variant3("I2cWriteRegister", "addr", a, "reg", r,
             "value", de_u8(b, After(b, r)))

I2cWriteRegisterFields(b, a) ==
    I2cWriteRegisterValue(b, a, de_u8(b, After(b, a)))

SetConfigFields(b, k) ==
    Variant2("SetConfig", "key", k,
             "value", de_str(b, After(b, k), CAP_VALUE))

FileWriteFields(b, q) ==
    Variant2("FileWrite", "path", q,
             "data", de_bytes(b, After(b, q), CAP_FILE_DATA))

\* The fields of the Message variant tag.val, in declaration order.
MessageFields(b, tag) ==
    IF ~tag.ok THEN Fail
    ELSE CASE tag.val = "SetMode" ->
                Variant1("SetMode", "mode", de_Mode(b, tag.next))
           [] tag.val = "GetMode" -> Got([t |-> "GetMode"], tag.next)
           [] tag.val = "I2cScan" -> Got([t |-> "I2cScan"], tag.next)
           [] tag.val = "I2cWrite" -> I2cWriteFields(b, de_u8(b, tag.next))
           [] tag.val = "I2cRead" -> I2cReadFields(b, de_u8(b, tag.next))
           [] tag.val = "I2cReadRegister" ->
                I2cReadRegisterFields(b, de_u8(b, tag.next))
           [] tag.val = "I2cWriteRegister" ->
                I2cWriteRegisterFields(b, de_u8(b, tag.next))
           [] tag.val = "SpiTransfer" ->
                Variant1("SpiTransfer", "data",
                         de_bytes(b, tag.next, CAP_DATA))
           [] tag.val = "UartWrite" ->
                Variant1("UartWrite", "data",
                         de_bytes(b, tag.next, CAP_DATA))
           [] tag.val = "UartRead" ->
                Variant1("UartRead", "len", de_u16(b, tag.next))
           [] tag.val = "UartConfig" ->
                Variant1("UartConfig", "baudrate", de_u32(b, tag.next))
           [] tag.val = "SetConfig" ->
                SetConfigFields(b, de_str(b, tag.next, CAP_KEY))
           [] tag.val = "GetConfig" ->
                Variant1("GetConfig", "key", de_str(b, tag.next, CAP_KEY))
           [] tag.val = "FileList" ->
                Variant1("FileList", "path", de_str(b, tag.next, CAP_PATH))
           [] tag.val = "FileRead" ->
                Variant1("FileRead", "path", de_str(b, tag.next, CAP_PATH))
           [] tag.val = "FileWrite" ->
                FileWriteFields(b, de_str(b, tag.next, CAP_PATH))
           [] tag.val = "Response" ->
                Variant1("Response", "resp", de_Response(b, tag.next))
           [] tag.val = "Error" ->
                Variant1("Error", "code", de_ErrorCode(b, tag.next))

de_Message(b, i) == MessageFields(b, de_variant(MessageVariants, b, i))

\* The value the reader r returned; what it left unread is not looked at.
Value(r) == IF r.ok THEN Ok(r.val) ELSE Err("Deserialize")

\* A deserializer that reads the unit variant GetMode from no bytes.
from_bytes_or_unit(payload) ==
    IF payload = << >> THEN Ok([t |-> "GetMode"])
    ELSE Value(de_Message(payload, 1))

\* postcard::from_bytes(payload): the value read from the front of the
\* payload; bytes left after it are not looked at.
from_bytes(payload) == Value(de_Message(payload, 1))

\* ------------------------------------------------------------------------
\* MessageCodec (codec.rs)
\* ------------------------------------------------------------------------

\* A frame vector that is not fresh: it still holds the frame the previous
\* encode call returned.
StaleVec == IF encoded.ok THEN encoded.val ELSE << >>

\* heapless::Vec::new()
VecNew == << >>

\* A push that does not look at the capacity of the vector.
push_unbounded(vec, byte) == Ok(Append(vec, byte))

\* heapless::Vec::push on a vector of capacity MAX_MESSAGE_SIZE
push(vec, byte) ==
    IF Len(vec) < MAX_MESSAGE_SIZE THEN Ok(Append(vec, byte)) ELSE Err("Full")

\* heapless::Vec::extend_from_slice: all of the slice or nothing
extend_from_slice(vec, slice) ==
    IF Len(vec) + Len(slice) <= MAX_MESSAGE_SIZE
    THEN Ok(vec \o slice)
    ELSE Err("Full")

\* A conversion that passes the error of the callee on as it is.
keep_err(r, e) == r

\* result.map_err(|_| e)
map_err(r, e) == IF r.ok THEN r ELSE Err(e)

\* frame.push(byte).map_err(|_| Error::BufferFull)? on the frame so far,
\* which is an error already when an earlier step returned one.
try_push(frame, byte) ==
    IF frame.ok THEN map_err(push(frame.val, byte), "BufferFull") ELSE frame

\* frame.extend_from_slice(slice).map_err(|_| Error::BufferFull)?
try_extend(frame, slice) ==
    IF frame.ok
    THEN map_err(extend_from_slice(frame.val, slice), "BufferFull")
    ELSE frame

\* payload_slice.len() as u16
as_u16(n) == n % 65536

\* A frame head whose LENGTH field counts the whole frame, not the payload.
frame_with_frame_length(payload_slice) ==
    try_extend(
        try_extend(
            try_push(try_push(Ok(VecNew), START_BYTE), PROTOCOL_VERSION),
            to_le_bytes(as_u16(Len(payload_slice) + 7))),
        payload_slice)

\* START, VERSION, LENGTH and the payload.
frame_with_payload(payload_slice) ==
    try_extend(
        try_extend(
            try_push(try_push(Ok(VecNew), START_BYTE), PROTOCOL_VERSION),
            to_le_bytes(as_u16(Len(payload_slice)))),
        payload_slice)

\* CRC data that takes in the START byte: &frame[0..].
crc_data_with_start(frame) == frame

\* The bytes the frame's CRC is computed over when the frame holds START,
\* VERSION, LENGTH and the payload: &frame[1..].
encode_crc_data(frame) == SubSeq(frame, 2, Len(frame))

\* The frame with the CRC of what it holds so far appended.
frame_with_crc(frame) ==
    IF frame.ok
    THEN try_extend(frame, to_le_bytes(Checksum(encode_crc_data(frame.val))))
    ELSE frame

\* The frame built around the payload that to_slice returned.
encode_payload(payload_slice) ==
    IF ~payload_slice.ok THEN Err("EncodingFailed")
    ELSE try_push(frame_with_crc(frame_with_payload(payload_slice.val)),
                  END_BYTE)

\* MessageCodec::encode
encode(m) == encode_payload(to_slice(m, MAX_MESSAGE_SIZE))

\* The bytes decode recomputes the CRC over: &frame[1..payload_end].
decode_crc_data(frame, payload_end) == SubSeq(frame, 2, payload_end)

\* A decoder that does not compare the CRC.
decode_unchecked(frame, payload_end) ==
    map_err(from_bytes(SubSeq(frame, 5, payload_end)), "DecodingFailed")

\* decode from the CRC check on (lines 82-95).  Indices are 1-based here:
\* frame[k] of the code is frame[k + 1].
decode_checked(frame, payload_end) ==
    IF from_le_bytes(frame[payload_end + 1], frame[payload_end + 2])
       # Checksum(decode_crc_data(frame, payload_end))
    THEN Err("CrcMismatch")
    ELSE map_err(from_bytes(SubSeq(frame, 5, payload_end)), "DecodingFailed")

\* A decoder that takes the payload to end where the frame leaves room for
\* it when LENGTH announces more than the frame holds.
decode_payload_clamped(frame, payload_end) ==
    IF Len(frame) < payload_end + 3
    THEN decode_checked(frame, Len(frame) - 3)
    ELSE decode_checked(frame, payload_end)

\* decode from the check of the length against the LENGTH field on
\* (lines 78-95).
decode_payload(frame, payload_end) ==
    IF Len(frame) < payload_end + 3 THEN Err("FrameTooShort")
    ELSE decode_checked(frame, payload_end)

\* A decoder that checks the version only after the length and the CRC.
crc_before_version(frame) ==
    IF Len(frame) < 7 + from_le_bytes(frame[3], frame[4])
    THEN Err("FrameTooShort")
    ELSE IF from_le_bytes(frame[5 + from_le_bytes(frame[3], frame[4])],
                          frame[6 + from_le_bytes(frame[3], frame[4])])
            # Checksum(SubSeq(frame, 2, 4 + from_le_bytes(frame[3], frame[4])))
         THEN Err("CrcMismatch")
    ELSE IF frame[2] # PROTOCOL_VERSION THEN Err("UnsupportedVersion")
    ELSE map_err(from_bytes(SubSeq(frame, 5,
                                   4 + from_le_bytes(frame[3], frame[4]))),
                 "DecodingFailed")

\* A payload end found by looking for the first END byte that can close a
\* frame, three bytes after the payload.
payload_end_at_marker(frame) ==
    (CHOOSE k \in 7 .. Len(frame) :
        /\ frame[k] = END_BYTE
        /\ \A j \in 7 .. k - 1 : frame[j] # END_BYTE) - 3

\* payload_end = 4 + len, with len read from the LENGTH field (lines 75-76;
\* the model counts from 1, so this is the index of the last payload byte).
payload_end(frame) == 4 + from_le_bytes(frame[3], frame[4])

\* decode from the version check on (lines 68-95).
decode_versioned(frame) ==
    IF frame[2] # PROTOCOL_VERSION THEN Err("UnsupportedVersion")
    ELSE decode_payload(frame, payload_end(frame))

\* A decoder that checks the version before the frame markers.
version_before_markers(frame) ==
    IF frame[2] # PROTOCOL_VERSION THEN Err("UnsupportedVersion")
    ELSE IF frame[1] # START_BYTE \/ frame[Len(frame)] # END_BYTE
         THEN Err("InvalidFrame")
    ELSE decode_payload(frame, 4 + from_le_bytes(frame[3], frame[4]))

\* decode from the check of the frame markers on (lines 63-95).
decode_framed(frame) ==
    IF frame[1] # START_BYTE \/ frame[Len(frame)] # END_BYTE
    THEN Err("InvalidFrame")
    ELSE decode_versioned(frame)

\* A decoder that takes the 4 header bytes for the minimum frame.
decode_header_minimum(frame) ==
    IF Len(frame) < 4 THEN Err("FrameTooShort") ELSE decode_framed(frame)

\* A decoder that keeps the error of a failed call and returns it again.
decode_latched(frame) ==
    IF ~decoded.ok /\ decoded # NotCalled THEN decoded
    ELSE IF Len(frame) < 7 THEN Err("FrameTooShort")
    ELSE decode_framed(frame)

\* MessageCodec::decode
decode(frame) ==
    IF Len(frame) < 7 THEN Err("FrameTooShort") ELSE decode_framed(frame)

\* ------------------------------------------------------------------------
\* The values the model builds and the bounds on them
\* ------------------------------------------------------------------------

\* Longest byte buffer, longest string (in characters), longest file list.
MaxData == 2

MaxStr == 1

MaxList == 1

DataBytes == {START_BYTE, END_BYTE}

U8Values == {0, 255}

U16Values == {0, 127, 128, 16383, 16384, 65535}

U32Values ==
    { [hi |-> 0, lo |-> 0], [hi |-> 0, lo |-> 127], [hi |-> 0, lo |-> 128],
      [hi |-> 1, lo |-> 49664], [hi |-> 4096, lo |-> 0],
      [hi |-> 65535, lo |-> 65535] }

\* The characters of strings, as their UTF-8 bytes: "U" and "e-acute".
StrChars == { << 85 >>, << 195, 169 >> }

\* The byte buffers of at most n bytes.
Buffers(n) == UNION { [1 .. k -> DataBytes] : k \in 0 .. n }

RECURSIVE Strings(_)
\* The strings of at most n characters.
Strings(n) ==
    IF n = 0 THEN { << >> }
    ELSE LET shorter == Strings(n - 1)
         IN  shorter \cup { s \o c : s \in shorter, c \in StrChars }

\* The lists of at most n strings.
Lists(n) == UNION { [1 .. k -> Strings(MaxStr)] : k \in 0 .. n }

Range(f) == { f[k] : k \in DOMAIN f }

Modes == Range(ModeVariants)

ErrorCodes == Range(ErrorCodeVariants)

Responses ==
    { [t |-> "Success"] }
    \cup { [t |-> "Data", data |-> d] : d \in Buffers(MaxData) }
    \cup { [t |-> "I2cDevices", addrs |-> d] : d \in Buffers(MaxData) }
    \cup { [t |-> "CurrentMode", mode |-> m] : m \in Modes }
    \cup { [t |-> "ConfigValue", value |-> v] : v \in Strings(MaxStr) }
    \cup { [t |-> "FileList", files |-> l] : l \in Lists(MaxList) }

Messages ==
    { [t |-> "SetMode", mode |-> m] : m \in Modes }
    \cup { [t |-> "GetMode"], [t |-> "I2cScan"] }
    \cup { [t |-> "I2cWrite", addr |-> a, data |-> d] :
              a \in U8Values, d \in Buffers(MaxData) }
    \cup { [t |-> "I2cRead", addr |-> a, len |-> n] :
              a \in U8Values, n \in U8Values }
    \cup { [t |-> "I2cReadRegister", addr |-> a, reg |-> r] :
              a \in U8Values, r \in U8Values }
    \cup { [t |-> "I2cWriteRegister", addr |-> a, reg |-> r, value |-> v] :
              a \in U8Values, r \in U8Values, v \in U8Values }
    \cup { [t |-> "SpiTransfer", data |-> d] : d \in Buffers(MaxData) }
    \cup { [t |-> "UartWrite", data |-> d] : d \in Buffers(MaxData) }
    \cup { [t |-> "UartRead", len |-> n] : n \in U16Values }
    \cup { [t |-> "UartConfig", baudrate |-> w] : w \in U32Values }
    \cup { [t |-> "SetConfig", key |-> k, value |-> v] :
              k \in Strings(MaxStr), v \in Strings(MaxStr) }
    \cup { [t |-> "GetConfig", key |-> k] : k \in Strings(MaxStr) }
    \cup { [t |-> "FileList", path |-> q] : q \in Strings(MaxStr) }
    \cup { [t |-> "FileRead", path |-> q] : q \in Strings(MaxStr) }
    \cup { [t |-> "FileWrite", path |-> q, data |-> d] :
              q \in Strings(MaxStr), d \in Buffers(MaxData) }
    \cup { [t |-> "Response", resp |-> r] : r \in Responses }
    \cup { [t |-> "Error", code |-> c] : c \in ErrorCodes }

\* Values filled to, or CapSlack short of, the capacity of their fields.
CapSlack == 1

CapLens(cap) == (cap - CapSlack) .. cap

\* "U" and "/": bytes that are also one-byte UTF-8 characters.
CapFills == {85, 47}

Fill(n, b) == [k \in 1 .. n |-> b]

Filled(cap) == { Fill(n, b) : n \in CapLens(cap), b \in CapFills }

\* File lists, as << entries, bytes of each name >>, whose payload of
\* 3 + entries * (1 + bytes) bytes is 1017, 1018, 1023 and 1026 bytes: the
\* largest that fits a frame, two that fit the payload buffer but not the
\* frame, and one that does not fit the payload buffer.
EdgeShapes == { << 26, 38 >>, << 29, 34 >>, << 17, 59 >>, << 31, 32 >> }

CapResponses ==
    { [t |-> "Data", data |-> d] : d \in Filled(CAP_RESPONSE_DATA) }
    \cup { [t |-> "I2cDevices", addrs |-> d] : d \in Filled(CAP_I2C_DEVICES) }
    \cup { [t |-> "ConfigValue", value |-> v] : v \in Filled(CAP_VALUE) }
    \cup { [t |-> "FileList", files |-> Fill(c, name)] :
              c \in CapLens(CAP_FILE_LIST), name \in Filled(CAP_FILE_NAME) }
    \cup { [t |-> "FileList", files |-> Fill(shape[1], Fill(shape[2], 85))] :
              shape \in EdgeShapes }

CapMessages ==
    { [t |-> "I2cWrite", addr |-> a, data |-> d] :
              a \in U8Values, d \in Filled(CAP_DATA) }
    \cup { [t |-> "SpiTransfer", data |-> d] : d \in Filled(CAP_DATA) }
    \cup { [t |-> "UartWrite", data |-> d] : d \in Filled(CAP_DATA) }
    \cup { [t |-> "SetConfig", key |-> k, value |-> v] :
              k \in Filled(CAP_KEY), v \in Filled(CAP_VALUE) }
    \cup { [t |-> "GetConfig", key |-> k] : k \in Filled(CAP_KEY) }
    \cup { [t |-> "FileList", path |-> q] : q \in Filled(CAP_PATH) }
    \cup { [t |-> "FileRead", path |-> q] : q \in Filled(CAP_PATH) }
    \cup { [t |-> "FileWrite", path |-> q, data |-> d] :
              q \in Filled(CAP_PATH), d \in Filled(CAP_FILE_DATA) }
    \cup { [t |-> "Response", resp |-> r] : r \in CapResponses }

\* ------------------------------------------------------------------------
\* What the link and the peer can hand to decode
\* ------------------------------------------------------------------------

\* frame with its byte at index k (1-based) replaced.
WithByte(frame, k, b) == [frame EXCEPT ![k] = b]

\* frame with one bit of its byte at index k inverted.
FlipBit(frame, k, bit) == [frame EXCEPT ![k] = Xor8(frame[k], 2 ^ bit)]

\* The first n bytes of frame.
Prefix(frame, n) == SubSeq(frame, 1, n)

\* frame with l in its LENGTH field.
WithLength(frame, l) ==
    Prefix(frame, 2) \o to_le_bytes(l) \o SubSeq(frame, 5, Len(frame))

\* The payload bytes of a frame built by encode.
PayloadOf(frame) == SubSeq(frame, 5, Len(frame) - 3)

\* Marker and version bytes a forged frame may carry, beside the right ones.
StartBytes == {START_BYTE, 0}

EndBytes == {END_BYTE, 0}

VersionBytes == {PROTOCOL_VERSION, 2}

\* How much more than the payload a forged LENGTH field may declare.
LengthExcess == {0, 1}

\* A frame assembled by hand around payload: any start, version and end
\* byte, a LENGTH field declaring excess bytes more than the payload has, a
\* CRC field that is the checksum of VERSION..PAYLOAD (crcGood) or differs
\* from it in one bit, and perhaps (short) only the first 6 bytes of it.
Forge(payload, start, version, excess, crcGood, end, short) ==
    LET header == << version >> \o to_le_bytes(Len(payload) + excess)
        crc == Checksum(header \o payload)
        field == IF crcGood THEN crc ELSE Xor16(crc, 1)
        frame == << start >> \o header \o payload
                 \o to_le_bytes(field) \o << end >>
    IN  IF short THEN Prefix(frame, 6) ELSE frame

\* Payloads of a peer that does not use this encoder: some that no Message
\* encodes to, and some that differ from what encode writes.
ForeignPayloads ==
    { << >>,                    \* nothing
      << 18 >>,                 \* a Message tag beyond the last variant
      << 0, 20 >>,              \* SetMode with a Mode beyond the last
      << 16, 6 >>,              \* Response beyond the last variant
      << 17, 8 >>,              \* ErrorCode beyond the last
      << 3, 0 >>,               \* I2cWrite that ends before its data
      << 7, 2, 85 >>,           \* SpiTransfer with 1 of 2 bytes
      << 12, 1, 200 >>,         \* GetConfig with a key that is not UTF-8
      << 9, 255, 255, 4 >>,     \* UartRead with a varint above u16
      << 1 >>,                  \* GetMode
      << 129, 0 >>,             \* GetMode, its tag in two bytes
      << 1, 0 >>,               \* GetMode followed by a byte
      << 9, 128, 0 >> }         \* UartRead 0, its length in two bytes

\* A frame with the right markers, version, LENGTH and CRC around payload.
Framed(payload) ==
    Forge(payload, START_BYTE, PROTOCOL_VERSION, 0, TRUE, END_BYTE, FALSE)

\* Bytes that may follow what was sent.
ExtraBytes == { << 0 >>, << END_BYTE >>, << 1, 0 >> }

\* Where the payload of m holds a variant index, as << index of the byte in
\* the payload, number of variants of the enum >>.
OrdinalSlots(m) ==
    { << 1, Len(MessageVariants) >> }
    \cup (IF m.t = "SetMode" THEN { << 2, Len(ModeVariants) >> } ELSE {})
    \cup (IF m.t = "Response" THEN { << 2, Len(ResponseVariants) >> } ELSE {})
    \cup (IF m.t = "Response" /\ m.resp.t = "CurrentMode"
          THEN { << 3, Len(ModeVariants) >> } ELSE {})
    \cup (IF m.t = "Error" THEN { << 2, Len(ErrorCodeVariants) >> } ELSE {})

\* Lengths from one above a capacity to CapSlack above it.
OverLens(cap) == (cap + 1) .. (cap + CapSlack)

Over(cap) == { Fill(n, 85) : n \in OverLens(cap) }

\* Values that no Message holds: one field is longer than its capacity.  A
\* peer can still write their encoding.
OverCapMessages ==
    { [t |-> "I2cWrite", addr |-> 0, data |-> d] : d \in Over(CAP_DATA) }
    \cup { [t |-> "SpiTransfer", data |-> d] : d \in Over(CAP_DATA) }
    \cup { [t |-> "UartWrite", data |-> d] : d \in Over(CAP_DATA) }
    \cup { [t |-> "SetConfig", key |-> q, value |-> << >>] :
              q \in Over(CAP_KEY) }
    \cup { [t |-> "SetConfig", key |-> << 85 >>, value |-> v] :
              v \in Over(CAP_VALUE) }
    \cup { [t |-> "GetConfig", key |-> q] : q \in Over(CAP_KEY) }
    \cup { [t |-> "FileList", path |-> q] : q \in Over(CAP_PATH) }
    \cup { [t |-> "FileRead", path |-> q] : q \in Over(CAP_PATH) }
    \cup { [t |-> "FileWrite", path |-> q, data |-> << >>] :
              q \in Over(CAP_PATH) }
    \cup { [t |-> "FileWrite", path |-> << 47 >>, data |-> d] :
              d \in Over(CAP_FILE_DATA) }
    \cup { [t |-> "Response", resp |-> [t |-> "Data", data |-> d]] :
              d \in Over(CAP_RESPONSE_DATA) }
    \cup { [t |-> "Response", resp |-> [t |-> "I2cDevices", addrs |-> d]] :
              d \in Over(CAP_I2C_DEVICES) }
    \cup { [t |-> "Response", resp |-> [t |-> "ConfigValue", value |-> v]] :
              v \in Over(CAP_VALUE) }
    \cup { [t |-> "Response",
            resp |-> [t |-> "FileList", files |-> Fill(c, << 85 >>)]] :
              c \in OverLens(CAP_FILE_LIST) }
    \cup { [t |-> "Response",
            resp |-> [t |-> "FileList", files |-> << name >>]] :
              name \in Over(CAP_FILE_NAME) }

\* ------------------------------------------------------------------------
\* Calls on the codec
\* ------------------------------------------------------------------------

Init ==
    /\ msg = NoMsg
    /\ encoded = NotCalled
    /\ input = << >>
    /\ decoded = NotCalled
    /\ calls = << >>
    /\ threads = [c \in Contexts |-> NoCall]
    /\ bufs = [c \in Contexts |-> << >>]
    /\ spi = NoDevice
    /\ pwm = NoDevice
    /\ i2c = NoDevice

\* --- one exchange: a value is encoded once and one byte string, the frame
\* --- or what the link made of it, is decoded once

\* MessageCodec::encode(&m)
Encode(m) ==
    /\ encoded = NotCalled
    /\ decoded = NotCalled
    /\ msg' = m
    /\ encoded' = encode(m)
    /\ UNCHANGED << input, decoded, calls, concVars, halVars >>

\* MessageCodec::decode(&bytes)
Decode(bytes) ==
    /\ decoded = NotCalled
    /\ input' = bytes
    /\ decoded' = decode(bytes)
    /\ UNCHANGED << msg, encoded, calls, concVars, halVars >>

\* The data of a UartWrite whose payload holds, right after its first two
\* bytes (the variant index and the data length), the CRC of a frame whose
\* payload is those two bytes alone.
EchoData ==
    to_le_bytes(Checksum(
        << PROTOCOL_VERSION, 2, 0 >>
        \o Prefix(ser_Message([t |-> "UartWrite", data |-> << 0, 0 >>]), 2)))

\* Values whose payload bytes happen to be the CRC of a shorter frame.
EchoMessages == { [t |-> "UartWrite", data |-> EchoData] }

\* Values a corrupted LENGTH field may take: every small one, and some
\* beyond every frame up to the largest a u16 holds.
LengthValues == (0 .. 16) \cup {255, 256, 1017, 1024, 32768, 65535}

EncodeMessage == \E m \in Messages : Encode(m)

EncodeEcho == \E m \in EchoMessages : Encode(m)

EncodeCapMessage == \E m \in CapMessages : Encode(m)

\* The frame arrives as it was sent.
DecodeIntact ==
    /\ encoded.ok
    /\ Decode(encoded.val)

\* The frame arrives with another VERSION byte.
DecodeVersionAltered ==
    /\ encoded.ok
    /\ \E b \in Byte \ {encoded.val[2]} : Decode(WithByte(encoded.val, 2, b))

\* The frame arrives with one bit inverted.
DecodeBitFlipped ==
    /\ encoded.ok
    /\ \E k \in 1 .. Len(encoded.val), bit \in 0 .. 7 :
          Decode(FlipBit(encoded.val, k, bit))

\* Only the first n bytes of the frame arrive.
DecodeTruncated ==
    /\ encoded.ok
    /\ \E n \in 0 .. Len(encoded.val) - 1 : Decode(Prefix(encoded.val, n))

\* The payload arrives in a frame with any mix of wrong start, version,
\* LENGTH, CRC and end, or cut below the minimum frame.
DecodeForged ==
    /\ encoded.ok
    /\ \E start \in StartBytes, version \in VersionBytes,
          excess \in LengthExcess, crcGood \in BOOLEAN, end \in EndBytes,
          short \in BOOLEAN :
          Decode(Forge(PayloadOf(encoded.val), start, version, excess,
                       crcGood, end, short))

\* Bytes of a peer's own making arrive.
DecodeForeign ==
    /\ encoded = NotCalled
    /\ \E p \in ForeignPayloads, start \in StartBytes,
          version \in VersionBytes, excess \in LengthExcess,
          crcGood \in BOOLEAN, end \in EndBytes, short \in BOOLEAN :
          Decode(Forge(p, start, version, excess, crcGood, end, short))

\* The payload arrives with bytes after it, in a frame whose LENGTH and CRC
\* are those of the longer payload.
DecodeTrailing ==
    /\ encoded.ok
    /\ \E extra \in ExtraBytes :
          Decode(Framed(PayloadOf(encoded.val) \o extra))

\* The frame arrives with bytes between its CRC and its END byte.
DecodePadded ==
    /\ encoded.ok
    /\ \E extra \in ExtraBytes :
          Decode(Prefix(encoded.val, Len(encoded.val) - 1) \o extra
                 \o << END_BYTE >>)

\* The payload arrives with one of its variant indices replaced by one
\* beyond the declared variants (up to 127, the largest a one-byte varint
\* holds), in a frame with matching LENGTH and CRC.
DecodeOrdinalAltered ==
    /\ encoded.ok
    /\ \E slot \in OrdinalSlots(msg) :
          \E b \in slot[2] .. 127 :
             Decode(Framed(WithByte(PayloadOf(encoded.val), slot[1], b)))

\* Only the first n bytes of the payload arrive, in a frame with matching
\* LENGTH and CRC.
DecodeCutPayload ==
    /\ encoded.ok
    /\ \E n \in 0 .. Len(encoded.val) - 8 :
          Decode(Framed(Prefix(PayloadOf(encoded.val), n)))

\* The frame arrives with another value in its LENGTH field.
DecodeLengthAltered ==
    /\ encoded.ok
    /\ \E l \in LengthValues \ {from_le_bytes(encoded.val[3], encoded.val[4])} :
          Decode(WithLength(encoded.val, l))

Next ==
    \/ EncodeMessage
    \/ EncodeEcho
    \/ DecodeLengthAltered
    \/ DecodeIntact
    \/ DecodeVersionAltered
    \/ DecodeBitFlipped
    \/ DecodeTruncated
    \/ DecodeForged
    \/ DecodeForeign
    \/ DecodeTrailing
    \/ DecodePadded
    \/ DecodeOrdinalAltered
    \/ DecodeCutPayload

Spec == Init /\ [][Next]_vars

\* --- every value, those at the capacity of their fields included, is
\* --- encoded and its frame decoded

\* A peer sends the encoding of a value with a field above its capacity,
\* in a frame with matching LENGTH and CRC.
DecodeOverCapacity ==
    /\ encoded = NotCalled
    /\ \E m \in OverCapMessages : Decode(Framed(ser_Message(m)))

NextCap ==
    \/ EncodeMessage
    \/ EncodeCapMessage
    \/ DecodeIntact
    \/ DecodeOverCapacity

SpecCap == Init /\ [][NextCap]_vars

\* --- sequences of calls: any call may follow any other

\* Longest sequence of calls.
MaxCalls == 3

\* Values passed to encode: two that fit, one whose payload does not fit
\* payload_buf and one whose payload does not fit the frame.
SeqMessages ==
    { [t |-> "GetMode"],
      [t |-> "UartWrite", data |-> << START_BYTE, END_BYTE >>],
      [t |-> "Response",
       resp |-> [t |-> "FileList",
                 files |-> Fill(CAP_FILE_LIST, Fill(CAP_FILE_NAME, 85))]],
      [t |-> "Response",
       resp |-> [t |-> "FileList", files |-> Fill(29, Fill(34, 85))]] }

\* Byte strings passed to decode: two valid frames, one for each error, no
\* bytes at all, and a frame whose LENGTH is the largest a u16 holds.
SeqInputs ==
    { << >>,
      WithLength(Forge(<< 1 >>, START_BYTE, PROTOCOL_VERSION, 0, TRUE,
                       END_BYTE, FALSE), 65535),
      Forge(<< 1 >>, START_BYTE, PROTOCOL_VERSION, 0, TRUE, END_BYTE, FALSE),
      Forge(<< 0, 3 >>, START_BYTE, PROTOCOL_VERSION, 0, TRUE, END_BYTE,
            FALSE),
      Forge(<< 1 >>, START_BYTE, PROTOCOL_VERSION, 0, FALSE, END_BYTE, FALSE),
      Forge(<< 1 >>, START_BYTE, PROTOCOL_VERSION, 0, TRUE, 0, FALSE),
      Forge(<< 1 >>, START_BYTE, PROTOCOL_VERSION, 0, TRUE, END_BYTE, TRUE),
      Forge(<< 1 >>, START_BYTE, 2, 0, TRUE, END_BYTE, FALSE),
      Forge(<< 18 >>, START_BYTE, PROTOCOL_VERSION, 0, TRUE, END_BYTE,
            FALSE) }

EncodeCall(m, ret) == [op |-> "encode", msg |-> m, bytes |-> << >>, ret |-> ret]

DecodeCall(bytes, ret) ==
    [op |-> "decode", msg |-> NoMsg, bytes |-> bytes, ret |-> ret]

\* MessageCodec::encode(&m), whatever was called before
CallEncode(m) ==
    /\ Len(calls) < MaxCalls
    /\ msg' = m
    /\ encoded' = encode(m)
    /\ calls' = Append(calls, EncodeCall(m, encoded'))
    /\ UNCHANGED << input, decoded, concVars, halVars >>

\* MessageCodec::decode(&bytes), whatever was called before
CallDecode(bytes) ==
    /\ Len(calls) < MaxCalls
    /\ input' = bytes
    /\ decoded' = decode(bytes)
    /\ calls' = Append(calls, DecodeCall(bytes, decoded'))
    /\ UNCHANGED << msg, encoded, concVars, halVars >>

SeqEncode == \E m \in SeqMessages : CallEncode(m)

SeqDecode == \E bytes \in SeqInputs : CallDecode(bytes)

\* The frame the latest encode call returned is decoded.
SeqDecodeEncoded ==
    /\ encoded.ok
    /\ CallDecode(encoded.val)

NextSeq ==
    \/ SeqEncode
    \/ SeqDecode
    \/ SeqDecodeEncoded

SpecSeq == Init /\ [][NextSeq]_vars

\* ---------------------------------------------------------------------
\* Calls that run at the same time.  MessageCodec has no fields and the
\* codec has no statics: a call works on its arguments and on its locals,
\* payload_buf and frame.  Each context runs its call in the steps below,
\* and the steps of the contexts interleave in every order.
\* ---------------------------------------------------------------------

\* File lists whose payloads of 1018, 1019 and 1023 bytes fit payload_buf
\* and overflow the frame at END, at the CRC and at the payload.
ConcOverflows ==
    { Fill(29, Fill(34, 85)),
      Fill(28, Fill(34, 85)) \o << Fill(35, 85) >>,
      Fill(17, Fill(59, 85)) }

\* Values passed to encode by the contexts.
ConcMessages ==
    SeqMessages
    \cup { [t |-> "Response", resp |-> [t |-> "FileList", files |-> f]] :
              f \in ConcOverflows }

\* Byte strings passed to decode by the contexts.
ConcInputs == SeqInputs

\* One payload_buf for all the contexts, as a static buffer would be.
shared_buffer(c) == 1

\* The payload_buf an encode call of context c works on: a local of the
\* call, so every call has its own.
buffer_of(c) == c

\* &payload_buf[..n]: the bytes to_slice wrote, and the zeroes the buffer
\* was filled with where it wrote none.
slice_of(buf, n) == [k \in 1 .. n |-> IF k <= Len(buf) THEN buf[k] ELSE 0]

\* What to_slice(m, &mut payload_buf) leaves in the buffer: the payload, or
\* as much of it as the buffer holds.
written(m) ==
    IF Len(ser_Message(m)) > MAX_MESSAGE_SIZE
    THEN SubSeq(ser_Message(m), 1, MAX_MESSAGE_SIZE)
    ELSE ser_Message(m)

\* The call of context c moves on to pc, its locals being slice and frame.
Continue(c, pc, slice, frame) ==
    threads' = [threads EXCEPT ![c] = [@ EXCEPT !.pc = pc, !.slice = slice,
                                                !.frame = frame]]

\* The call of context c returns ret.
Return(c, ret) ==
    threads' = [threads EXCEPT ![c] = [@ EXCEPT !.pc = "done", !.ret = ret]]

\* ? on a step of encode: return the error, or move on with the frame.
Try(c, pc, frame) ==
    IF frame.ok THEN Continue(c, pc, threads[c].slice, frame)
    ELSE Return(c, frame)

\* Context c calls MessageCodec::encode(&m): payload_buf is zeroed.
BeginEncode(c, m) ==
    /\ threads[c].pc \in {"idle", "done"}
    /\ threads' = [threads EXCEPT ![c] =
                      [pc |-> "e_serialize", op |-> "encode", arg |-> m,
                       slice |-> 0, frame |-> NotCalled, ret |-> NotCalled]]
    /\ bufs' = [bufs EXCEPT ![buffer_of(c)] = << >>]
    /\ UNCHANGED << codecVars, halVars >>

\* postcard::to_slice(msg, &mut payload_buf).map_err(|_| EncodingFailed)?
Serialize(c) ==
    /\ threads[c].pc = "e_serialize"
    /\ bufs' = [bufs EXCEPT ![buffer_of(c)] = written(threads[c].arg)]
    /\ IF to_slice(threads[c].arg, MAX_MESSAGE_SIZE).ok
       THEN Continue(c, "e_frame", Len(ser_Message(threads[c].arg)),
                     NotCalled)
       ELSE Return(c, Err("EncodingFailed"))
    /\ UNCHANGED << codecVars, halVars >>

\* START, VERSION, LENGTH and payload_slice are put into a new frame.
BuildFrame(c) ==
    /\ threads[c].pc = "e_frame"
    /\ Try(c, "e_crc",
           frame_with_payload(slice_of(bufs[buffer_of(c)], threads[c].slice)))
    /\ UNCHANGED << bufs, codecVars, halVars >>

\* The CRC of the frame so far is appended.
AppendCrc(c) ==
    /\ threads[c].pc = "e_crc"
    /\ Try(c, "e_end", frame_with_crc(threads[c].frame))
    /\ UNCHANGED << bufs, codecVars, halVars >>

\* END is appended and Ok(frame) is returned.
AppendEnd(c) ==
    /\ threads[c].pc = "e_end"
    /\ Return(c, try_push(threads[c].frame, END_BYTE))
    /\ UNCHANGED << bufs, codecVars, halVars >>

\* Context c calls MessageCodec::decode(&bytes).
BeginDecode(c, bytes) ==
    /\ threads[c].pc \in {"idle", "done"}
    /\ threads' = [threads EXCEPT ![c] =
                      [pc |-> "d_header", op |-> "decode", arg |-> bytes,
                       slice |-> 0, frame |-> NotCalled, ret |-> NotCalled]]
    /\ UNCHANGED << bufs, codecVars, halVars >>

\* The checks of decode that come before the payload is located: Ok of
\* payload_end (counted as the model counts, from 1), or the error.
header_check(frame) ==
    IF Len(frame) < 7 THEN Err("FrameTooShort")
    ELSE IF frame[1] # START_BYTE \/ frame[Len(frame)] # END_BYTE
         THEN Err("InvalidFrame")
    ELSE IF frame[2] # PROTOCOL_VERSION THEN Err("UnsupportedVersion")
    ELSE Ok(4 + from_le_bytes(frame[3], frame[4]))

\* The length, the markers and the version are checked, LENGTH is read.
CheckHeader(c) ==
    /\ threads[c].pc = "d_header"
    /\ IF header_check(threads[c].arg).ok
       THEN Continue(c, "d_payload", header_check(threads[c].arg).val,
                     NotCalled)
       ELSE Return(c, header_check(threads[c].arg))
    /\ UNCHANGED << bufs, codecVars, halVars >>

\* The length and the CRC are checked and the payload is deserialized.
CheckPayload(c) ==
    /\ threads[c].pc = "d_payload"
    /\ Return(c, decode_payload(threads[c].arg, threads[c].slice))
    /\ UNCHANGED << bufs, codecVars, halVars >>

ConcBeginEncode == \E c \in Contexts, m \in ConcMessages : BeginEncode(c, m)

ConcSerialize == \E c \in Contexts : Serialize(c)

ConcBuildFrame == \E c \in Contexts : BuildFrame(c)

ConcAppendCrc == \E c \in Contexts : AppendCrc(c)

ConcAppendEnd == \E c \in Contexts : AppendEnd(c)

ConcBeginDecode == \E c \in Contexts, bytes \in ConcInputs : BeginDecode(c, bytes)

ConcCheckHeader == \E c \in Contexts : CheckHeader(c)

ConcCheckPayload == \E c \in Contexts : CheckPayload(c)

NextConc ==
    \/ ConcBeginEncode
    \/ ConcSerialize
    \/ ConcBuildFrame
    \/ ConcAppendCrc
    \/ ConcAppendEnd
    \/ ConcBeginDecode
    \/ ConcCheckHeader
    \/ ConcCheckPayload

SpecConc == Init /\ [][NextConc]_vars

\* ---------------------------------------------------------------------
\* SpiDeviceWithCs (hal/src/peripherals/spi.rs): an SPI bus and a chip
\* select pin, active low.  A transaction is run in the steps below.  The
\* pin is an output that takes the level it is set to; the Result of
\* set_low and set_high is discarded by the code (let _ =).
\* ---------------------------------------------------------------------

\* The largest number of operations in a transaction.
MaxOps == 2

\* The kinds of embedded_hal::spi::Operation.
OperationKinds == {"Read", "Write", "Transfer", "TransferInPlace", "DelayNs"}

\* What the bus answers to an operation: Ok(()) or one of its errors.
BusAnswers == {Ok(<< >>), Err("Overrun"), Err("ModeFault")}

\* An operation of the slice, with the answer of the bus to it.
Operations == [kind : OperationKinds, answer : BusAnswers]

\* The slices passed to transaction.
OperationLists == UNION { [1 .. n -> Operations] : n \in 0 .. MaxOps }

\* A closure that goes on to the next operation whatever the last returned.
go_on_always(result) == TRUE

\* try_for_each goes on to the next operation only after Ok.
go_on(result) == result.ok

\* The arm of the match for op: the call of the bus, or Ok(()) for a delay,
\* which is left to the caller.
run_operation(op) == IF op.kind = "DelayNs" THEN Ok(<< >>) ELSE op.answer

\* SpiDeviceWithCs::new(bus, cs): the pin is taken at the level it has.
SpiNew ==
    /\ spi = NoDevice
    /\ \E level \in {"low", "high"} :
          spi' = [pc |-> "ready", cs |-> level, ops |-> << >>, done |-> 0,
                  result |-> Ok(<< >>), trace |-> << >>, ret |-> NotCalled]
    /\ UNCHANGED << codecVars, concVars, pwm, i2c >>

\* transaction(&mut operations) is called.
SpiBegin ==
    /\ spi.pc = "ready"
    /\ \E ops \in OperationLists :
          spi' = [spi EXCEPT !.pc = "entered", !.ops = ops, !.done = 0,
                             !.result = Ok(<< >>), !.trace = << >>,
                             !.ret = NotCalled]
    /\ UNCHANGED << codecVars, concVars, pwm, i2c >>

\* let _ = self.cs.set_low();
SpiAssert ==
    /\ spi.pc = "entered"
    /\ spi' = [spi EXCEPT !.pc = "running", !.cs = "low",
                          !.trace = Append(@, "set_low")]
    /\ UNCHANGED << codecVars, concVars, pwm, i2c >>

\* One turn of try_for_each: the next operation of the slice is run.
SpiOperation ==
    /\ spi.pc = "running"
    /\ spi.done < Len(spi.ops)
    /\ go_on(spi.result)
    /\ spi' = [spi EXCEPT !.done = @ + 1,
                          !.result = run_operation(spi.ops[spi.done + 1]),
                          !.trace = Append(@, spi.done + 1)]
    /\ UNCHANGED << codecVars, concVars, pwm, i2c >>

\* let _ = self.cs.set_high(); once try_for_each has returned.
SpiRelease ==
    /\ spi.pc = "running"
    /\ spi.done = Len(spi.ops) \/ ~go_on(spi.result)
    /\ spi' = [spi EXCEPT !.pc = "released", !.cs = "high",
                          !.trace = Append(@, "set_high")]
    /\ UNCHANGED << codecVars, concVars, pwm, i2c >>

\* transaction returns result.
SpiReturn ==
    /\ spi.pc = "released"
    /\ spi' = [spi EXCEPT !.pc = "returned", !.ret = spi.result]
    /\ UNCHANGED << codecVars, concVars, pwm, i2c >>

\* The caller has taken the result; the device is ready for the next
\* transaction, its pin at the level the last one left.
SpiNext ==
    /\ spi.pc = "returned"
    /\ spi' = [spi EXCEPT !.pc = "ready", !.ops = << >>, !.done = 0,
                          !.result = Ok(<< >>), !.trace = << >>,
                          !.ret = NotCalled]
    /\ UNCHANGED << codecVars, concVars, pwm, i2c >>

NextSpi ==
    \/ SpiNew
    \/ SpiNext
    \/ SpiBegin
    \/ SpiAssert
    \/ SpiOperation
    \/ SpiRelease
    \/ SpiReturn

SpecSpi == Init /\ [][NextSpi]_vars

\* ---------------------------------------------------------------------
\* PwmConfig and PwmChannel (hal/src/peripherals/gpio.rs).  A PwmConfig is
\* made and changed by its builder methods, a PwmChannel is made of it and
\* then driven.  pwm.asked is the argument of the latest call that took a
\* duty, pwm.duty the value of the latest channel.set_duty, if any.
\* ---------------------------------------------------------------------

\* Duty percentages passed by the callers: any u8, above 100 included.
Percents == {0, 1, 33, 50, 99, 100, 101, 150, 200, 255}

\* PWM frequencies in Hz.
Frequencies == {1000, 5000, 20000}

\* timer.get_max_duty(): 2^bits - 1 for timers of 1, 8, 13 and 20 bits.
MaxDuties == {1, 255, 8191, 1048575}

\* A minimum that returns its first argument.
min_unclamped(a, b) == a

\* u8::min
min(a, b) == IF a < b THEN a ELSE b

\* PwmConfig::default()
PwmConfig_default == [frequency |-> 5000, duty_percent |-> 100]

\* PwmConfig::new(frequency, duty_percent)
PwmConfig_new(frequency, duty_percent) ==
    [frequency |-> frequency, duty_percent |-> min(duty_percent, 100)]

\* config.with_frequency(frequency)
with_frequency(config, frequency) == [config EXCEPT !.frequency = frequency]

\* config.with_duty_percent(duty_percent)
with_duty_percent(config, duty_percent) ==
    [config EXCEPT !.duty_percent = min(duty_percent, 100)]

\* (max_duty as u64 * percent as u64 / 100) as u32.  The product of a u32
\* and a u8 is below 2^40, so the u64 does not wrap.
duty_of(max_duty, percent) == (max_duty * percent) \div 100

\* PwmChannel::new(ledc, timer, pin, config): the channel is configured
\* with duty_pct = config.duty_percent and the config is kept.
PwmChannel_new(config, max_duty) ==
    [pc |-> "channel", config |-> config, max_duty |-> max_duty,
     duty_pct |-> config.duty_percent, duty |-> << >>,
     asked |-> config.duty_percent]

\* channel.set_duty_percent(percent)
set_duty_percent(channel, percent) ==
    [channel EXCEPT !.config.duty_percent = min(percent, 100),
                    !.duty = << duty_of(channel.max_duty, min(percent, 100)) >>,
                    !.asked = percent]

\* A PwmConfig under construction.
Building(config, asked) == [pc |-> "config", config |-> config, asked |-> asked]

PwmDefault ==
    /\ pwm = NoDevice
    /\ pwm' = Building(PwmConfig_default, 100)
    /\ UNCHANGED << codecVars, concVars, spi, i2c >>

PwmNew ==
    /\ pwm = NoDevice
    /\ \E f \in Frequencies, d \in Percents :
          pwm' = Building(PwmConfig_new(f, d), d)
    /\ UNCHANGED << codecVars, concVars, spi, i2c >>

PwmWithFrequency ==
    /\ pwm.pc = "config"
    /\ \E f \in Frequencies :
          pwm' = Building(with_frequency(pwm.config, f), pwm.asked)
    /\ UNCHANGED << codecVars, concVars, spi, i2c >>

PwmWithDutyPercent ==
    /\ pwm.pc = "config"
    /\ \E d \in Percents :
          pwm' = Building(with_duty_percent(pwm.config, d), d)
    /\ UNCHANGED << codecVars, concVars, spi, i2c >>

PwmChannelNew ==
    /\ pwm.pc = "config"
    /\ \E max_duty \in MaxDuties : pwm' = PwmChannel_new(pwm.config, max_duty)
    /\ UNCHANGED << codecVars, concVars, spi, i2c >>

PwmSetDutyPercent ==
    /\ pwm.pc = "channel"
    /\ \E percent \in Percents : pwm' = set_duty_percent(pwm, percent)
    /\ UNCHANGED << codecVars, concVars, spi, i2c >>

\* channel.on()
PwmOn ==
    /\ pwm.pc = "channel"
    /\ pwm' = set_duty_percent(pwm, 100)
    /\ UNCHANGED << codecVars, concVars, spi, i2c >>

\* channel.off()
PwmOff ==
    /\ pwm.pc = "channel"
    /\ pwm' = set_duty_percent(pwm, 0)
    /\ UNCHANGED << codecVars, concVars, spi, i2c >>

NextPwm ==
    \/ PwmDefault
    \/ PwmNew
    \/ PwmWithFrequency
    \/ PwmWithDutyPercent
    \/ PwmChannelNew
    \/ PwmSetDutyPercent
    \/ PwmOn
    \/ PwmOff

SpecPwm == Init /\ [][NextPwm]_vars

\* ---------------------------------------------------------------------
\* The I2C bus scan: Scanner::scan of I2cMode (bus-modes/src/i2c.rs), which
\* returns Ok(devices), and I2cExt::scan of I2cBus (hal/src/peripherals/
\* i2c.rs), the same loop, which returns devices.  i2c.acks are the
\* addresses a zero-length write is acknowledged at.
\* ---------------------------------------------------------------------

\* The first and the last address of for addr in 0x08..=0x77.
SCAN_FIRST == 8

SCAN_LAST == 119

\* The capacity of the Vec<u8, 128> of devices.
SCAN_CAPACITY == 128

\* The addresses of 0x08..0x77, a range without its end.
ScanRangeExclusive == SCAN_FIRST .. SCAN_LAST - 1

\* The addresses of 0x08..=0x77.
ScanRange == SCAN_FIRST .. SCAN_LAST

\* The two scan functions.
ScanImpls == {"I2cMode", "I2cExt"}

\* The sets of addresses that acknowledge: none, the ends of the range,
\* two usual devices, the whole range, every 7-bit address, and reserved
\* addresses only.
BusSets ==
    { {}, {8}, {119}, {60, 104}, 8 .. 119, 0 .. 127, {0, 7, 120, 127} }

\* self.i2c.write(addr, &[]).is_ok()
write_is_ok(acks, addr) == addr \in acks

\* devices.push(addr) with its Result dropped: a full Vec stays as it is.
push_device(devices, addr) ==
    IF Len(devices) < SCAN_CAPACITY THEN Append(devices, addr) ELSE devices

\* The wrapper is made over a bus with some devices on it.
I2cNew ==
    /\ i2c = NoDevice
    /\ \E impl \in ScanImpls, acks \in BusSets :
          i2c' = [pc |-> "ready", impl |-> impl, acks |-> acks, addr |-> 0,
                  probed |-> << >>, devices |-> << >>, ret |-> NotCalled]
    /\ UNCHANGED << codecVars, concVars, spi, pwm >>

\* scan() is called: devices is a new Vec, the loop starts at the first
\* address.
ScanBegin ==
    /\ i2c.pc \in {"ready", "returned"}
    /\ i2c' = [i2c EXCEPT !.pc = "scanning", !.addr = SCAN_FIRST,
                          !.probed = << >>, !.devices = << >>,
                          !.ret = NotCalled]
    /\ UNCHANGED << codecVars, concVars, spi, pwm >>

\* One turn of the loop: addr is probed and pushed if it acknowledged.
ScanProbe ==
    /\ i2c.pc = "scanning"
    /\ i2c.addr \in ScanRange
    /\ i2c' = [i2c EXCEPT !.addr = @ + 1,
                          !.probed = Append(@, i2c.addr),
                          !.devices = IF write_is_ok(i2c.acks, i2c.addr)
                                      THEN push_device(@, i2c.addr)
                                      ELSE @]
    /\ UNCHANGED << codecVars, concVars, spi, pwm >>

\* The loop is over: Ok(devices), or devices, is returned.
ScanReturn ==
    /\ i2c.pc = "scanning"
    /\ i2c.addr \notin ScanRange
    /\ i2c' = [i2c EXCEPT !.pc = "returned",
                          !.ret = IF i2c.impl = "I2cMode"
                                  THEN Ok(i2c.devices)
                                  ELSE i2c.devices]
    /\ UNCHANGED << codecVars, concVars, spi, pwm >>

NextScan ==
    \/ I2cNew
    \/ ScanBegin
    \/ ScanProbe
    \/ ScanReturn

SpecScan == Init /\ [][NextScan]_vars

\* ------------------------------------------------------------------------
\* Properties
\* ------------------------------------------------------------------------

\* The LENGTH field of a byte string of at least 4 bytes.
LengthField(bytes) == bytes[3] + 256 * bytes[4]

\* The two bytes that follow the payload LENGTH announces, as a u16.
StoredCrc(bytes) ==
    bytes[5 + LengthField(bytes)] + 256 * bytes[6 + LengthField(bytes)]

\* The bytes from VERSION to the end of the payload LENGTH announces.
CoveredBytes(bytes) == SubSeq(bytes, 2, 4 + LengthField(bytes))

\* A frame was built and some byte string has been decoded after it.
Exchanged == encoded.ok /\ decoded # NotCalled

\* C1: round-trip law.  encode succeeds on every Message value, up to the
\* capacity of every field, and decode of the frame it returns is Ok of
\* that value.
RoundTripLaw ==
    /\ encoded # NotCalled => encoded.ok
    /\ (Exchanged /\ input = encoded.val) => decoded = Ok(msg)

\* C2: encode(Message::GetMode) returns exactly AA 01 01 00 01 30 AB 55.
GetModeVector ==
    (msg = [t |-> "GetMode"] /\ encoded # NotCalled)
        => encoded = Ok(<< 170, 1, 1, 0, 1, 48, 171, 85 >>)

GetModeEncoded == msg = [t |-> "GetMode"] /\ encoded.ok

VersionAltered ==
    /\ Exchanged
    /\ Len(input) = Len(encoded.val)
    /\ input[2] # PROTOCOL_VERSION
    /\ input = WithByte(encoded.val, 2, input[2])

\* C4: version before CRC.  A frame of encode whose VERSION byte alone was
\* replaced by another value decodes to UnsupportedVersion (so not to
\* CrcMismatch).
VersionBeforeCrc == VersionAltered => decoded = Err("UnsupportedVersion")

VersionAlteredCrcStale ==
    /\ VersionAltered
    /\ StoredCrc(input) # Checksum(CoveredBytes(input))
    /\ decoded = Err("UnsupportedVersion")

\* The decoded bytes are the frame with one bit of one payload byte flipped.
PayloadBitFlipped ==
    /\ Exchanged
    /\ Len(input) = Len(encoded.val)
    /\ \E k \in 5 .. Len(input) - 3 :
          /\ Xor8(input[k], encoded.val[k]) \in {1, 2, 4, 8, 16, 32, 64, 128}
          /\ input = WithByte(encoded.val, k, input[k])

\* C5: CRC sensitivity.  A frame of encode with one bit of its payload
\* flipped decodes to CrcMismatch.
CrcSensitivity == PayloadBitFlipped => decoded = Err("CrcMismatch")

PayloadBitFlippedDetected ==
    PayloadBitFlipped /\ decoded = Err("CrcMismatch")

\* The decoded bytes are a strict prefix of the frame.
StrictPrefix ==
    /\ Exchanged
    /\ Len(input) < Len(encoded.val)
    /\ input = Prefix(encoded.val, Len(input))

\* C6 as stated: every strict prefix of a frame of encode decodes to
\* FrameTooShort.
TruncationTooShort == StrictPrefix => decoded = Err("FrameTooShort")

\* C6: truncation safety.  A strict prefix of a frame of encode decodes to
\* FrameTooShort when it has fewer than 7 bytes or ends with 0x55, and to
\* InvalidFrame otherwise; it never decodes to a value.
TruncationSafety ==
    StrictPrefix =>
        decoded = IF Len(input) < 7 \/ input[Len(input)] = 85
                  THEN Err("FrameTooShort")
                  ELSE Err("InvalidFrame")

TruncatedInvalidFrame ==
    StrictPrefix /\ Len(input) >= 7 /\ decoded = Err("InvalidFrame")

DecodeCheckOrder ==
    decoded # NotCalled =>
        IF Len(input) < 7 THEN decoded = Err("FrameTooShort")
        ELSE IF input[1] # 170 \/ input[Len(input)] # 85
             THEN decoded = Err("InvalidFrame")
        ELSE IF input[2] # 1 THEN decoded = Err("UnsupportedVersion")
        ELSE IF Len(input) < 7 + LengthField(input)
             THEN decoded = Err("FrameTooShort")
        ELSE IF StoredCrc(input) # Checksum(CoveredBytes(input))
             THEN decoded = Err("CrcMismatch")
        ELSE IF ~from_bytes(SubSeq(input, 5, 4 + LengthField(input))).ok
             THEN decoded = Err("DecodingFailed")
        ELSE decoded.ok

SeveralChecksViolated ==
    /\ decoded = Err("InvalidFrame")
    /\ input[1] # 170
    /\ input[2] # 1
    /\ Len(input) < 7 + LengthField(input)

\* C9: frame layout.  A frame of encode is 0xAA, 0x01, the payload byte
\* count as a little-endian u16, the payload, 2 more bytes and 0x55: 7 bytes
\* more than the payload.
FrameLayout ==
    encoded.ok =>
        /\ Len(encoded.val) = Len(to_slice(msg, MAX_MESSAGE_SIZE).val) + 7
        /\ encoded.val[1] = 170
        /\ encoded.val[2] = 1
        /\ encoded.val[3] = (Len(encoded.val) - 7) % 256
        /\ encoded.val[4] = (Len(encoded.val) - 7) \div 256
        /\ PayloadOf(encoded.val) = to_slice(msg, MAX_MESSAGE_SIZE).val
        /\ encoded.val[Len(encoded.val)] = 85

LongFrameEncoded == encoded.ok /\ encoded.val[4] > 0

\* C10: CRC coverage.  The CRC is CRC-16/ISO-HDLC (check value 0x906E); the
\* two bytes before END of a frame of encode are its value, low byte first,
\* over the bytes from VERSION to the end of the payload; and decode, once
\* the markers, the version and the length are right, answers CrcMismatch
\* exactly when those two bytes differ from the CRC of that range.
CrcCoverage ==
    /\ Checksum(<< 49, 50, 51, 52, 53, 54, 55, 56, 57 >>) = 36974
    /\ encoded.ok =>
          /\ LengthField(encoded.val) = Len(encoded.val) - 7
          /\ StoredCrc(encoded.val) = Checksum(CoveredBytes(encoded.val))
    /\ (/\ decoded # NotCalled
        /\ Len(input) >= 7
        /\ input[1] = 170 /\ input[Len(input)] = 85 /\ input[2] = 1
        /\ Len(input) >= 7 + LengthField(input))
           => (decoded = Err("CrcMismatch")
               <=> StoredCrc(input) # Checksum(CoveredBytes(input)))

CrcCompared == Exchanged /\ decoded = Err("CrcMismatch")

\* The payload bytes postcard writes for the Message of the latest encode
\* call.
PayloadBytes == ser_Message(msg)

\* C11: encode overflow.  encode returns BufferFull for every value whose
\* payload plus the 7 framing bytes exceeds 1024 bytes, and returns
\* EncodingFailed for no value that is merely too large.
EncodeOverflowIsBufferFull ==
    encoded # NotCalled =>
        /\ Len(PayloadBytes) + 7 > 1024 => encoded = Err("BufferFull")
        /\ encoded # Err("EncodingFailed")

\* The decoded bytes are a frame with the right markers, version and CRC
\* whose LENGTH is the count of the bytes between it and the CRC.
WellFramed ==
    /\ decoded # NotCalled
    /\ Len(input) >= 7
    /\ input[1] = 170 /\ input[Len(input)] = 85 /\ input[2] = 1
    /\ Len(input) = 7 + LengthField(input)
    /\ StoredCrc(input) = Checksum(CoveredBytes(input))

\* The decoded bytes are such a frame, and its payload is the payload of the
\* frame encode built followed by one or more bytes.
PayloadExtended ==
    /\ encoded.ok
    /\ WellFramed
    /\ Len(input) > Len(encoded.val)
    /\ SubSeq(input, 5, Len(encoded.val) - 3) = PayloadOf(encoded.val)

\* C12: trailing garbage.  A well-formed frame whose payload is a complete
\* encoding of a Message followed by extra bytes decodes to DecodingFailed.
TrailingGarbageRejected == PayloadExtended => decoded = Err("DecodingFailed")

\* C13: exact inverses.  Whenever decode accepts bytes with a value, encode
\* of that value returns exactly those bytes.
ExactInverses == decoded.ok => encode(decoded.val) = Ok(input)

\* The byte at index k of the payload of the decoded bytes, or 0 when the
\* payload is shorter.
PayloadByte(k) == IF k <= LengthField(input) THEN input[4 + k] ELSE 0

\* The payload of a well-formed frame has, where an enum starts, a one-byte
\* variant index beyond the last variant of Message (18 variants), of the
\* Mode of SetMode or of Response::CurrentMode (20), of Response (6) or of
\* ErrorCode (8).
OrdinalOutOfRange ==
    /\ WellFramed
    /\ LengthField(input) >= 1
    /\ \/ PayloadByte(1) \in 18 .. 127
       \/ PayloadByte(1) = 0 /\ PayloadByte(2) \in 20 .. 127
       \/ PayloadByte(1) = 16 /\ PayloadByte(2) \in 6 .. 127
       \/ PayloadByte(1) = 16 /\ PayloadByte(2) = 3
          /\ PayloadByte(3) \in 20 .. 127
       \/ PayloadByte(1) = 17 /\ PayloadByte(2) \in 8 .. 127

\* The payload of a well-formed frame is a strict prefix of the payload
\* encode wrote: it ends before all fields of the value are present.
PayloadCut ==
    /\ encoded.ok
    /\ WellFramed
    /\ Len(input) < Len(encoded.val)
    /\ SubSeq(input, 5, Len(input) - 3)
       = Prefix(PayloadOf(encoded.val), Len(input) - 7)

\* C14: structural mismatch.  A well-formed frame whose payload carries a
\* variant index beyond the declared variants, or ends before all fields of
\* the value are present, decodes to DecodingFailed and to no value.
StructuralMismatch ==
    (OrdinalOutOfRange \/ PayloadCut) => decoded = Err("DecodingFailed")

NestedOrdinalRejected ==
    /\ OrdinalOutOfRange
    /\ PayloadByte(1) = 16
    /\ LengthField(input) > 2
    /\ decoded = Err("DecodingFailed")

\* Every string of the list has at most cap bytes.
NamesWithin(list, cap) == \A k \in 1 .. Len(list) : Len(list[k]) <= cap

\* No variable-length field of the Response r is longer than its capacity.
ResponseWithinCapacity(r) ==
    CASE r.t = "Data" -> Len(r.data) <= 512
      [] r.t = "I2cDevices" -> Len(r.addrs) <= 128
      [] r.t = "ConfigValue" -> Len(r.value) <= 64
      [] r.t = "FileList" -> Len(r.files) <= 32 /\ NamesWithin(r.files, 64)
      [] OTHER -> TRUE

\* No variable-length field of the Message m is longer than its capacity.
WithinCapacity(m) ==
    CASE m.t \in {"I2cWrite", "SpiTransfer", "UartWrite"} ->
            Len(m.data) <= 256
      [] m.t = "SetConfig" -> Len(m.key) <= 32 /\ Len(m.value) <= 64
      [] m.t = "GetConfig" -> Len(m.key) <= 32
      [] m.t \in {"FileList", "FileRead"} -> Len(m.path) <= 128
      [] m.t = "FileWrite" -> Len(m.path) <= 128 /\ Len(m.data) <= 512
      [] m.t = "Response" -> ResponseWithinCapacity(m.resp)
      [] OTHER -> TRUE

\* The count (a varint of one or two bytes) at index k of the payload of the
\* decoded bytes, and the index after the bytes it counts.
CountAt(k) ==
    IF PayloadByte(k) < 128 THEN PayloadByte(k)
    ELSE PayloadByte(k) - 128 + 128 * PayloadByte(k + 1)

FieldEnd(k) == k + (IF PayloadByte(k) < 128 THEN 1 ELSE 2) + CountAt(k)

\* The payload of the decoded bytes declares, for a variable-length field of
\* the variant it names, more elements than the capacity of the field.
DeclaresOverCapacity ==
    \/ PayloadByte(1) = 3 /\ CountAt(3) > 256
    \/ PayloadByte(1) \in {7, 8} /\ CountAt(2) > 256
    \/ PayloadByte(1) \in {11, 12} /\ CountAt(2) > 32
    \/ PayloadByte(1) = 11 /\ CountAt(2) <= 32 /\ CountAt(FieldEnd(2)) > 64
    \/ PayloadByte(1) \in {13, 14, 15} /\ CountAt(2) > 128
    \/ PayloadByte(1) = 15 /\ CountAt(2) <= 128 /\ CountAt(FieldEnd(2)) > 512
    \/ PayloadByte(1) = 16 /\ PayloadByte(2) = 1 /\ CountAt(3) > 512
    \/ PayloadByte(1) = 16 /\ PayloadByte(2) = 2 /\ CountAt(3) > 128
    \/ PayloadByte(1) = 16 /\ PayloadByte(2) = 4 /\ CountAt(3) > 64
    \/ PayloadByte(1) = 16 /\ PayloadByte(2) = 5 /\ CountAt(3) > 32
    \/ PayloadByte(1) = 16 /\ PayloadByte(2) = 5 /\ CountAt(3) \in 1 .. 32
       /\ CountAt(4) > 64

\* C15: capacity bound.  No Message that was passed to encode or returned by
\* decode has a variable-length field longer than its capacity, and a
\* well-formed frame whose payload declares a larger count decodes to
\* DecodingFailed.
CapacityBound ==
    /\ msg # NoMsg => WithinCapacity(msg)
    /\ decoded.ok => WithinCapacity(decoded.val)
    /\ (WellFramed /\ DeclaresOverCapacity) => decoded = Err("DecodingFailed")

OverCapacityRejected ==
    /\ WellFramed
    /\ PayloadByte(1) = 15
    /\ CountAt(2) = 1
    /\ CountAt(FieldEnd(2)) = 513
    /\ Len(input) = 7 + 5 + 513
    /\ decoded = Err("DecodingFailed")

\* Every string of the list has exactly cap bytes.
NamesFill(list, cap) == \A k \in 1 .. Len(list) : Len(list[k]) = cap

\* Every variable-length field of the Message of the latest encode call is
\* filled to its capacity.
AtFullCapacity ==
    /\ msg # NoMsg
    /\ CASE msg.t \in {"I2cWrite", "SpiTransfer", "UartWrite"} ->
               Len(msg.data) = 256
         [] msg.t = "SetConfig" -> Len(msg.key) = 32 /\ Len(msg.value) = 64
         [] msg.t = "GetConfig" -> Len(msg.key) = 32
         [] msg.t \in {"FileList", "FileRead"} -> Len(msg.path) = 128
         [] msg.t = "FileWrite" -> Len(msg.path) = 128 /\ Len(msg.data) = 512
         [] msg.t = "Response" /\ msg.resp.t = "Data" ->
               Len(msg.resp.data) = 512
         [] msg.t = "Response" /\ msg.resp.t = "I2cDevices" ->
               Len(msg.resp.addrs) = 128
         [] msg.t = "Response" /\ msg.resp.t = "ConfigValue" ->
               Len(msg.resp.value) = 64
         [] msg.t = "Response" /\ msg.resp.t = "FileList" ->
               Len(msg.resp.files) = 32 /\ NamesFill(msg.resp.files, 64)
         [] OTHER -> FALSE

\* C16: maximum-capacity values.  Every Message whose variable-length fields
\* are filled to their capacity encodes to a frame shorter than 1024 bytes,
\* which decodes to the same Message.
MaxCapacityRoundTrip ==
    AtFullCapacity =>
        /\ encoded.ok
        /\ Len(encoded.val) < 1024
        /\ (decoded # NotCalled /\ input = encoded.val) => decoded = Ok(msg)

\* C17: maximum frame size.  A frame of encode has at most 1024 bytes, so
\* its payload has at most 1017, and its LENGTH field is the payload count.
MaxFrameSize ==
    encoded.ok =>
        /\ Len(encoded.val) <= 1024
        /\ Len(PayloadBytes) <= 1017
        /\ LengthField(encoded.val) = Len(PayloadBytes)

LargestFrameEncoded == encoded.ok /\ Len(encoded.val) = 1024

\* The ordinals of the variants, as message.rs declares them.
MessageTag ==
    [ SetMode |-> 0, GetMode |-> 1, I2cScan |-> 2, I2cWrite |-> 3,
      I2cRead |-> 4, I2cReadRegister |-> 5, I2cWriteRegister |-> 6,
      SpiTransfer |-> 7, UartWrite |-> 8, UartRead |-> 9, UartConfig |-> 10,
      SetConfig |-> 11, GetConfig |-> 12, FileList |-> 13, FileRead |-> 14,
      FileWrite |-> 15, Response |-> 16, Error |-> 17 ]

ModeTag ==
    [ HiZ |-> 0, I2c |-> 1, Spi |-> 2, Uart |-> 3, OneWire |-> 4,
      TwoWire |-> 5, ThreeWire |-> 6, Dio |-> 7, Infrared |-> 8, Usb |-> 9,
      Bluetooth |-> 10, Wifi |-> 11, Ethernet |-> 12, Jtag |-> 13, Led |-> 14,
      I2s |-> 15, Can |-> 16, SubGhz |-> 17, Rfid |-> 18, Rf24 |-> 19 ]

ResponseTag ==
    [ Success |-> 0, Data |-> 1, I2cDevices |-> 2, CurrentMode |-> 3,
      ConfigValue |-> 4, FileList |-> 5 ]

ErrorCodeTag ==
    [ InvalidCommand |-> 0, ProtocolError |-> 1, BusError |-> 2,
      FileNotFound |-> 3, PermissionDenied |-> 4, Timeout |-> 5,
      NotConfigured |-> 6, InvalidParameter |-> 7 ]

\* The payload p of the Message m starts with the ordinal of its variant,
\* carries nested enums by their ordinal, and holds the fields of a variant
\* in the order of their declaration (each count below 128 is one byte).
TagsAsDeclared(p, m) ==
    /\ p[1] = MessageTag[m.t]
    /\ m.t = "SetMode" => p = << 0, ModeTag[m.mode] >>
    /\ m.t = "Response" => p[2] = ResponseTag[m.resp.t]
    /\ (m.t = "Response" /\ m.resp.t = "CurrentMode")
          => p = << 16, 3, ModeTag[m.resp.mode] >>
    /\ m.t = "Error" => p = << 17, ErrorCodeTag[m.code] >>
    /\ m.t = "I2cWrite" => p = << 3, m.addr, Len(m.data) >> \o m.data
    /\ m.t = "I2cRead" => p = << 4, m.addr, m.len >>
    /\ m.t = "I2cReadRegister" => p = << 5, m.addr, m.reg >>
    /\ m.t = "I2cWriteRegister" => p = << 6, m.addr, m.reg, m.value >>
    /\ m.t = "SetConfig"
          => p = << 11, Len(m.key) >> \o m.key \o << Len(m.value) >>
                 \o m.value
    /\ m.t = "FileWrite"
          => p = << 15, Len(m.path) >> \o m.path \o << Len(m.data) >>
                 \o m.data

\* C18: variant tags.  The payload of a frame of encode begins with the
\* ordinal of the variant in declaration order (SetMode 0 .. Error 17),
\* followed by its fields in declaration order; nested Mode, Response and
\* ErrorCode values are written by their ordinal too.
VariantTags == encoded.ok => TagsAsDeclared(PayloadOf(encoded.val), msg)

NestedTagsEncoded ==
    /\ encoded.ok
    /\ msg.t = "Response"
    /\ msg.resp.t = "CurrentMode"
    /\ msg.resp.mode = "Rf24"

\* The 7 low bits of v[k], or 0 beyond v.
Group7(v, k) == IF k <= Len(v) THEN v[k] % 128 ELSE 0

\* v is a base-128 varint of at most maxLen bytes: the continuation bit is
\* set on all bytes but the last, and the last byte of several is not 0.
IsVarint(v, maxLen) ==
    /\ Len(v) \in 1 .. maxLen
    /\ \A k \in 1 .. Len(v) : (v[k] >= 128) <=> (k < Len(v))
    /\ Len(v) > 1 => v[Len(v)] # 0

\* v is the varint of the number n < 2^21, least significant group first.
IsVarintOf(v, n) ==
    /\ IsVarint(v, 3)
    /\ n = Group7(v, 1) + 128 * Group7(v, 2) + 16384 * Group7(v, 3)

\* v is the varint of the u32 w, given as its 16-bit halves.
IsVarintOfU32(v, w) ==
    /\ IsVarint(v, 5)
    /\ w.lo = Group7(v, 1) + 128 * Group7(v, 2) + 16384 * (Group7(v, 3) % 4)
    /\ w.hi = (Group7(v, 3) \div 4) + 32 * Group7(v, 4) + 4096 * Group7(v, 5)

\* The payload p of the Message m holds its u8 fields as one raw byte each,
\* its u16 and u32 fields as varints, and the count of its byte buffer, when
\* the buffer is the only field, as a varint before the bytes.
IntegersAsDeclared(p, m) ==
    /\ m.t = "I2cRead" => p = << 4, m.addr, m.len >>
    /\ m.t = "I2cReadRegister" => p = << 5, m.addr, m.reg >>
    /\ m.t = "I2cWriteRegister" => p = << 6, m.addr, m.reg, m.value >>
    /\ m.t = "I2cWrite" => p[2] = m.addr
    /\ m.t = "UartRead" => IsVarintOf(SubSeq(p, 2, Len(p)), m.len)
    /\ m.t = "UartConfig" => IsVarintOfU32(SubSeq(p, 2, Len(p)), m.baudrate)
    /\ m.t \in {"SpiTransfer", "UartWrite"}
          => /\ IsVarintOf(SubSeq(p, 2, Len(p) - Len(m.data)), Len(m.data))
             /\ SubSeq(p, Len(p) - Len(m.data) + 1, Len(p)) = m.data
    /\ (m.t = "Response" /\ m.resp.t = "Data")
          => /\ IsVarintOf(SubSeq(p, 3, Len(p) - Len(m.resp.data)),
                           Len(m.resp.data))
             /\ SubSeq(p, Len(p) - Len(m.resp.data) + 1, Len(p))
                = m.resp.data

\* C19: integer encoding.  u8 fields are written as one raw byte; u16 and
\* u32 fields and length prefixes as little-endian base-128 varints with the
\* continuation bit on all bytes but the last; and decode of the frame
\* recovers the same integers, 0 and the maxima 65535 and 2^32 - 1 included.
IntegerEncoding ==
    encoded.ok =>
        /\ IntegersAsDeclared(PayloadOf(encoded.val), msg)
        /\ (decoded # NotCalled /\ input = encoded.val) => decoded = Ok(msg)

MaxU32Recovered ==
    /\ encoded.ok
    /\ msg.t = "UartConfig"
    /\ msg.baudrate = [hi |-> 65535, lo |-> 65535]
    /\ PayloadOf(encoded.val) = << 10, 255, 255, 255, 255, 15 >>
    /\ decoded = Ok(msg)

\* C20: version gate.  is_compatible holds for the byte 0x01 and no other;
\* decode, once the length and the markers are right, answers
\* UnsupportedVersion exactly for the VERSION bytes is_compatible rejects;
\* and the VERSION byte of a frame of encode is one is_compatible accepts.
VersionGate ==
    /\ \A b \in Byte : is_compatible(b) <=> b = 1
    /\ (/\ decoded # NotCalled
        /\ Len(input) >= 7
        /\ input[1] = 170 /\ input[Len(input)] = 85)
           => (decoded = Err("UnsupportedVersion")
               <=> ~is_compatible(input[2]))
    /\ encoded.ok => is_compatible(encoded.val[2])

VersionRejected ==
    /\ Exchanged
    /\ decoded = Err("UnsupportedVersion")
    /\ ~is_compatible(input[2])

\* The call of context c is an encode call between its steps, payload_buf
\* written and not yet returned.
Encoding(c) == threads[c].pc \in {"e_frame", "e_crc", "e_end"}

\* What the call of context c returns when no other call runs.
AloneResult(c) ==
    IF threads[c].op = "encode" THEN encode(threads[c].arg)
    ELSE decode(threads[c].arg)

\* C21: under every interleaving of the steps of concurrent encode and
\* decode calls, a call that has returned has returned what the same call
\* returns when run alone (a complete frame or value, or an error), a call
\* that has not returned has produced no result, and the payload_buf of an
\* encode call in flight holds that call's own payload, whatever the other
\* contexts have done meanwhile.
Reentrancy ==
    \A c \in Contexts :
        /\ threads[c].pc = "done" => threads[c].ret = AloneResult(c)
        /\ threads[c].pc # "done" => threads[c].ret = NotCalled
        /\ Encoding(c) =>
              /\ bufs[c] = ser_Message(threads[c].arg)
              /\ threads[c].slice = Len(bufs[c])

\* Both contexts are between the steps of encode calls of different values,
\* one before and one after its frame is built.
EncodesInterleaved ==
    /\ threads[1].pc = "e_frame"
    /\ threads[2].pc = "e_crc"
    /\ bufs[1] # bufs[2]
    /\ bufs[1] # << >>
    /\ bufs[2] # << >>


\* The bytes decoded are the frame that was built with another value in
\* the LENGTH field and no other change.
LengthAltered ==
    /\ Exchanged
    /\ Len(input) = Len(encoded.val)
    /\ LengthField(input) # LengthField(encoded.val)
    /\ \A k \in 1 .. Len(input) : k \notin {3, 4} => input[k] = encoded.val[k]

\* The statement of C22 as it was made: a frame with an altered LENGTH
\* decodes to CrcMismatch or to FrameTooShort.
LengthAlteredCrcOrShort ==
    LengthAltered => decoded \in {Err("CrcMismatch"), Err("FrameTooShort")}

\* C22: length corruption.  A frame of encode with another value in its
\* LENGTH field never decodes to a value: it decodes to FrameTooShort when
\* the new LENGTH is larger than the payload, and when it is smaller to
\* CrcMismatch, or to DecodingFailed if the two bytes that follow the
\* shortened payload are its CRC.
LengthCorruption ==
    LengthAltered =>
        decoded = IF LengthField(input) > LengthField(encoded.val)
                  THEN Err("FrameTooShort")
                  ELSE IF StoredCrc(input) = Checksum(CoveredBytes(input))
                       THEN Err("DecodingFailed")
                       ELSE Err("CrcMismatch")

\* A frame with a smaller LENGTH passed the CRC check and failed after it.
ShortenedPassedCrc ==
    /\ LengthAltered
    /\ LengthField(input) < LengthField(encoded.val)
    /\ decoded = Err("DecodingFailed")


\* Some byte of the payload is equal to the START or to the END marker.
HasMarker(payload) ==
    \E k \in 1 .. Len(payload) : payload[k] \in {START_BYTE, END_BYTE}

\* C23: payload transparency.  A frame of encode whose payload holds bytes
\* equal to START (0xAA) or END (0x55) carries them unescaped, its LENGTH
\* field counting them, and decodes to the value it was built from.
PayloadTransparency ==
    (Exchanged /\ input = encoded.val /\ HasMarker(PayloadOf(encoded.val))) =>
        /\ PayloadOf(encoded.val) = ser_Message(msg)
        /\ LengthField(encoded.val) = Len(ser_Message(msg))
        /\ decoded = Ok(msg)

\* A value whose payload holds both markers was encoded and decoded.
MarkersRoundTripped ==
    /\ Exchanged
    /\ input = encoded.val
    /\ \E k \in 1 .. Len(PayloadOf(input)) : PayloadOf(input)[k] = START_BYTE
    /\ \E k \in 1 .. Len(PayloadOf(input)) : PayloadOf(input)[k] = END_BYTE
    /\ decoded = Ok(msg)


\* C24: frame strictness.  decode returns a value only for a byte sequence
\* of exactly 7 + LENGTH bytes, so that the END marker it checked is the
\* byte right after the CRC field.
FrameStrictness ==
    decoded.ok => Len(input) = 7 + LengthField(input)


\* The bytes decoded are the frame that was built with one bit of the byte
\* at index k inverted.
BitFlippedAt(k) ==
    /\ Exchanged
    /\ Len(input) = Len(encoded.val)
    /\ k \in 1 .. Len(input)
    /\ Xor8(input[k], encoded.val[k]) \in {1, 2, 4, 8, 16, 32, 64, 128}
    /\ input = WithByte(encoded.val, k, input[k])

\* C25: no single-bit corruption is accepted.  A frame of encode with any
\* one bit inverted, in START, VERSION, LENGTH, the payload, the CRC or
\* END, decodes to an error and never to a value.
SingleBitRejected ==
    (\E k \in 1 .. Len(input) : BitFlippedAt(k)) => ~decoded.ok

\* A bit of the LENGTH field was inverted so that it announces a shorter
\* payload, and the frame was rejected.
LengthBitFlippedRejected ==
    /\ BitFlippedAt(3)
    /\ LengthField(input) < LengthField(encoded.val)
    /\ ~decoded.ok


\* The errors decode returns.
DecodeErrors ==
    { Err(e) : e \in {"FrameTooShort", "InvalidFrame", "UnsupportedVersion",
                      "CrcMismatch", "DecodingFailed"} }

\* The errors encode returns.
EncodeErrors == { Err(e) : e \in {"EncodingFailed", "BufferFull"} }

\* C26: decode totality and the error taxonomy.  Every decode call, on any
\* byte sequence (the empty one and one whose LENGTH field is 65535
\* included), returns a value or one of FrameTooShort, InvalidFrame,
\* UnsupportedVersion, CrcMismatch and DecodingFailed, and every encode call
\* returns a frame or one of EncodingFailed and BufferFull.
ErrorTaxonomy ==
    \A i \in 1 .. Len(calls) :
        IF calls[i].op = "decode"
        THEN calls[i].ret.ok \/ calls[i].ret \in DecodeErrors
        ELSE calls[i].ret.ok \/ calls[i].ret \in EncodeErrors

\* The calls made are an encode call that overflowed the frame, a decode
\* call on no bytes and a decode call on a frame whose LENGTH is 65535.
ExtremesReturned ==
    /\ Len(calls) = 3
    /\ calls[1].ret = Err("BufferFull")
    /\ calls[2].op = "decode"
    /\ calls[2].bytes = << >>
    /\ calls[2].ret = Err("FrameTooShort")
    /\ calls[3].op = "decode"
    /\ Len(calls[3].bytes) >= 7
    /\ LengthField(calls[3].bytes) = 65535
    /\ calls[3].ret = Err("FrameTooShort")


\* The bytes decoded are 7 bytes with the markers, the version, LENGTH = 0
\* and the CRC of a frame with no payload.
EmptyFrame ==
    /\ decoded # NotCalled
    /\ Len(input) = 7
    /\ input[1] = START_BYTE
    /\ input[2] = PROTOCOL_VERSION
    /\ LengthField(input) = 0
    /\ StoredCrc(input) = Checksum(CoveredBytes(input))
    /\ input[7] = END_BYTE

\* C27: empty payload.  Every frame of encode has a payload that starts
\* with the variant tag of the value, so it is at least 8 bytes long; the
\* well-formed 7-byte frame with LENGTH = 0 and a correct CRC decodes to
\* DecodingFailed.
EmptyPayload ==
    /\ encoded.ok =>
          /\ Len(encoded.val) >= 8
          /\ LengthField(encoded.val) >= 1
          /\ encoded.val[5] = Ordinal(MessageVariants, msg.t)
    /\ EmptyFrame => decoded = Err("DecodingFailed")

\* The 7-byte frame with no payload was decoded and rejected after its CRC
\* was found correct.
EmptyFrameRejected == EmptyFrame /\ decoded = Err("DecodingFailed")


\* The operations of ops that transaction runs: up to the first one the
\* bus answers with an error, or all of them.
Executed(ops) ==
    IF \E k \in 1 .. Len(ops) : ~run_operation(ops[k]).ok
    THEN CHOOSE k \in 1 .. Len(ops) :
            /\ ~run_operation(ops[k]).ok
            /\ \A j \in 1 .. k - 1 : run_operation(ops[j]).ok
    ELSE Len(ops)

DutyClamped ==
    /\ pwm.pc \in {"config", "channel"} =>
          /\ pwm.config.duty_percent \in 0 .. 100
          /\ pwm.config.duty_percent =
                IF pwm.asked > 100 THEN 100 ELSE pwm.asked
    /\ pwm.pc = "channel" =>
          /\ pwm.duty_pct \in 0 .. 100
          /\ \A k \in 1 .. Len(pwm.duty) :
                /\ pwm.duty[k] =
                      (pwm.max_duty * pwm.config.duty_percent) \div 100
                /\ pwm.duty[k] <= pwm.max_duty

\* set_duty_percent(255) on a channel of a 20-bit timer wrote the full duty.
FullDutyWritten ==
    /\ pwm.pc = "channel"
    /\ pwm.asked = 255
    /\ pwm.max_duty = 1048575
    /\ pwm.duty = << 1048575 >>
    /\ pwm.config.duty_percent = 100


\* list is strictly ascending, so without duplicates.
Ascending(list) == \A k \in 1 .. Len(list) - 1 : list[k] < list[k + 1]

\* The addresses in list.
Members(list) == { list[k] : k \in 1 .. Len(list) }

\* C30: I2C scan.  scan probes the addresses 0x08..=0x77 once each in
\* ascending order and returns the addresses among them that acknowledged,
\* ascending and without duplicates: at most 112, so that none is dropped
\* from the 128-entry Vec; I2cMode::scan returns them in Ok, I2cExt::scan as
\* they are, also when no device answers.
ScanComplete ==
    /\ i2c.pc = "scanning" =>
          /\ Ascending(i2c.probed)
          /\ Members(i2c.probed) = 8 .. i2c.addr - 1
          /\ Ascending(i2c.devices)
          /\ Members(i2c.devices) = i2c.acks \cap (8 .. i2c.addr - 1)
    /\ i2c.pc = "returned" =>
          /\ i2c.probed = [k \in 1 .. 112 |-> 7 + k]
          /\ Ascending(i2c.devices)
          /\ Members(i2c.devices) = i2c.acks \cap (8 .. 119)
          /\ Len(i2c.devices) <= 112
          /\ i2c.ret = IF i2c.impl = "I2cMode" THEN Ok(i2c.devices)
                       ELSE i2c.devices

\* A scan of a bus where every address acknowledges returned the 112
\* addresses of the range, the reserved ones left out.
FullBusScanned ==
    /\ i2c.pc = "returned"
    /\ i2c.impl = "I2cMode"
    /\ i2c.acks = 0 .. 127
    /\ i2c.ret.ok
    /\ Len(i2c.ret.val) = 112
    /\ i2c.ret.val[1] = 8
    /\ i2c.ret.val[112] = 119


====
